---- MODULE Spec2Model ----
(***************************************************************************)
(* Voice-Health-Detection: the inference core of backend/app.              *)
(*   - PredictionModel (load_model / predict), the classifier gateway      *)
(*   - AudioService (validate_audio / preprocess_audio / extract_features  *)
(*     / features_to_array)                                                *)
(*   - FeatureExtractor._get_feature_names                                 *)
(* Real-valued quantities are held in fixed point: a float v is the        *)
(* integer v * Unit.  Durations are held in ticks, TicksPerSec per second. *)
(***************************************************************************)
EXTENDS Integers, Sequences, FiniteSets, TLC

VARIABLES
    \* PredictionModel singleton (prediction_model.py:21-26)
    model, scaler, is_loaded, model_path, scaler_path,
    \* application lifecycle (main.py startup hook) and call bookkeeping
    started, loads, ok_loads, last,
    \* AudioService.validate_audio / preprocess_audio
    file, checks, validation, prep,
    \* AudioService.extract_features / features_to_array
    audio, features, array,
    \* PredictionService.generate_prediction: what the last call returned, the
    \* state of the random module it seeds, and an earlier predict call kept
    \* for comparison
    result, rng, prev,
    \* the score functions of PredictionModel applied to chosen probabilities
    inputs, scores,
    \* requests being served side by side
    threads,
    \* PredictionService._calculate_vocal_metrics called on its own: what the
    \* last call returned and an earlier return kept for comparison
    metrics, seen,
    \* PredictionService.create_result_document: the assembled document
    document,
    \* recordings.submit_recording: one request's progress, the upload
    \* directory and the two collections
    submit,
    \* a load_model call and a predict call running side by side
    race

gatewayVars == <<model, scaler, is_loaded, model_path, scaler_path, started, loads, ok_loads, last>>
audioVars == <<file, checks, validation, prep>>
featureVars == <<audio, features, array>>
serviceVars == <<result, rng, prev>>
scoreVars == <<inputs, scores>>
flowVars == <<metrics, seen, document, submit, race>>
vars == <<model, scaler, is_loaded, model_path, scaler_path, started, loads, ok_loads, last,
          file, checks, validation, prep, audio, features, array,
          result, rng, prev, inputs, scores, threads,
          metrics, seen, document, submit, race>>

None == "None"

-----------------------------------------------------------------------------
(* Bounds *)

Unit == 100            \* fixed-point resolution of feature values
MaxFrames == 3         \* analysis frames per decoded buffer
MaxPitch == 2          \* largest per-frame pitch estimate (0 = unvoiced)
MaxLevel == 1          \* largest per-frame value of the other tracks
MaxLoads == 3          \* load_model calls per run
TicksPerSec == 2       \* resolution of durations

-----------------------------------------------------------------------------
(* numpy helpers used by extract_features *)

RECURSIVE SumSeq(_)
SumSeq(s) == IF s = <<>> THEN 0 ELSE Head(s) + SumSeq(Tail(s))

RECURSIVE SumSq(_)
SumSq(s) == IF s = <<>> THEN 0 ELSE Head(s) * Head(s) + SumSq(Tail(s))

RECURSIVE MinSeq(_)
MinSeq(s) == IF Len(s) = 1 THEN s[1]
             ELSE LET m == MinSeq(Tail(s)) IN IF Head(s) < m THEN Head(s) ELSE m

RECURSIVE MaxSeq(_)
MaxSeq(s) == IF Len(s) = 1 THEN s[1]
             ELSE LET m == MaxSeq(Tail(s)) IN IF Head(s) > m THEN Head(s) ELSE m

RECURSIVE IsqrtIn(_, _, _)
IsqrtIn(v, lo, hi) ==
    IF lo >= hi THEN lo
    ELSE LET mid == (lo + hi + 1) \div 2
         IN IF mid * mid <= v THEN IsqrtIn(v, mid, hi) ELSE IsqrtIn(v, lo, mid - 1)

\* floor of the square root (np.sqrt inside np.std)
Isqrt(v) == IsqrtIn(v, 0, IF v < 46340 THEN v ELSE 46340)

\* np.mean of a non-empty array, in fixed point
NpMean(s) == (SumSeq(s) * Unit) \div Len(s)

\* np.std (population standard deviation) of a non-empty array, in fixed point
NpStd(s) == LET n == Len(s)
            IN Isqrt(((n * SumSq(s) - SumSeq(s) * SumSeq(s)) * Unit * Unit) \div (n * n))

\* np.min / np.max of a non-empty array, in fixed point
NpMin(s) == MinSeq(s) * Unit
NpMax(s) == MaxSeq(s) * Unit

\* np.diff: first differences of consecutive elements
NpDiff(s) == [i \in 1..(Len(s) - 1) |-> s[i + 1] - s[i]]

\* np.abs, elementwise
NpAbs(s) == [i \in 1..Len(s) |-> IF s[i] < 0 THEN -s[i] ELSE s[i]]

-----------------------------------------------------------------------------
(* Feature names *)

MfccMean(i) == "mfcc_" \o ToString(i) \o "_mean"
MfccStd(i) == "mfcc_" \o ToString(i) \o "_std"

N_MFCC == 13

\* FeatureExtractor._get_feature_names: the list behind feature_names
FeatureNamesBad ==
    [i \in 1..N_MFCC |-> MfccMean(i)] \o [i \in 1..N_MFCC |-> MfccStd(i)]
    \o <<"pitch_mean", "pitch_std", "pitch_min", "pitch_max">>
    \o <<"shimmer", "jitter">>
    \o <<"spectral_centroid_mean", "spectral_centroid_std">>
    \o <<"zcr_mean", "zcr_std">>
    \o <<"rms_mean", "rms_std">>
    \o <<"hnr">>

_get_feature_names ==
    [i \in 1..N_MFCC |-> MfccMean(i)] \o [i \in 1..N_MFCC |-> MfccStd(i)]
    \o <<"pitch_mean", "pitch_std", "pitch_min", "pitch_max">>
    \o <<"jitter", "shimmer">>
    \o <<"spectral_centroid_mean", "spectral_centroid_std">>
    \o <<"zcr_mean", "zcr_std">>
    \o <<"rms_mean", "rms_std">>
    \o <<"hnr">>

\* the list features_to_array builds on every call
FeatureOrderShort ==
    [i \in 1..N_MFCC |-> MfccMean(i)] \o [i \in 1..N_MFCC |-> MfccStd(i)]
    \o <<"pitch_mean", "pitch_std", "pitch_min", "pitch_max">>
    \o <<"jitter", "shimmer">>
    \o <<"spectral_centroid_mean", "spectral_centroid_std">>
    \o <<"zcr_mean", "zcr_std">>
    \o <<"rms_mean", "rms_std">>

feature_order ==
    [i \in 1..N_MFCC |-> MfccMean(i)] \o [i \in 1..N_MFCC |-> MfccStd(i)]
    \o <<"pitch_mean", "pitch_std", "pitch_min", "pitch_max">>
    \o <<"jitter", "shimmer">>
    \o <<"spectral_centroid_mean", "spectral_centroid_std">>
    \o <<"zcr_mean", "zcr_std">>
    \o <<"rms_mean", "rms_std">>
    \o <<"hnr">>

\* dict.get(key, default)
DictGet(d, k, default) == IF k \in DOMAIN d THEN d[k] ELSE default

\* d[k] = v
DictPut(d, k, v) == [x \in (DOMAIN d) \cup {k} |-> IF x = k THEN v ELSE d[x]]

\* AudioService.features_to_array: the values in feature_order, 0.0 for an absent key
features_to_array(fd) ==
    [i \in 1..Len(feature_order) |-> DictGet(fd, feature_order[i], 0)]

-----------------------------------------------------------------------------
(* AudioService.extract_features *)

\* A decoded, preprocessed buffer is represented by what librosa computes from
\* it: pitch[t] is pitches[magnitudes[:, t].argmax(), t] (0 when the frame is
\* unvoiced), rms[t] the frame energy, aux[t] the track the MFCC, spectral
\* centroid and zero-crossing outputs are generated from, and flat_exp the
\* decade of mean(spectral_flatness) + 1e-10.
FrameSeqs(vals) == UNION {[1..n -> vals] : n \in 1..MaxFrames}

FlatExps == {0, 3, 10}

Audios == {a \in [pitch : FrameSeqs(0..MaxPitch), rms : FrameSeqs(0..MaxLevel),
                  aux : FrameSeqs(0..MaxLevel), flat_exp : FlatExps] :
              Len(a.pitch) = Len(a.rms) /\ Len(a.rms) = Len(a.aux)}

\* librosa.feature.mfcc(y, sr, n_mfcc=13)[i - 1]
MfccRow(a, i) == [t \in 1..Len(a.aux) |-> a.aux[t] * i - 1]

\* librosa.feature.spectral_centroid(y, sr)[0]
SpectralCentroids(a) == [t \in 1..Len(a.aux) |-> a.aux[t] + 1]

\* librosa.feature.zero_crossing_rate(audio)[0]
Zcr(a) == a.aux

\* the loop over pitches.shape[1]: the positive per-frame pitches, in frame order
PitchValues(a) == SelectSeq(a.pitch, LAMBDA p : p > 0)

\* for i in range(13): features[mfcc_{i+1}_mean], features[mfcc_{i+1}_std]
RECURSIVE MfccLoop(_, _, _)
MfccLoop(d, a, i) ==
    IF i >= N_MFCC THEN d
    ELSE MfccLoop(DictPut(DictPut(d, MfccMean(i + 1), NpMean(MfccRow(a, i + 1))),
                          MfccStd(i + 1), NpStd(MfccRow(a, i + 1))),
                  a, i + 1)

\* if pitch_values: ... else: 0.0
PitchStats(d, pv) ==
    IF pv # <<>>
    THEN DictPut(DictPut(DictPut(DictPut(d, "pitch_mean", NpMean(pv)),
             "pitch_std", NpStd(pv)), "pitch_min", NpMin(pv)), "pitch_max", NpMax(pv))
    ELSE DictPut(DictPut(DictPut(DictPut(d, "pitch_mean", 0),
             "pitch_std", 0), "pitch_min", 0), "pitch_max", 0)

\* features['jitter']: mean |diff| of the voiced pitches
JitterSigned(pv) == IF Len(pv) > 1 THEN NpMean(NpDiff(pv)) ELSE 0

Jitter(pv) == IF Len(pv) > 1 THEN NpMean(NpAbs(NpDiff(pv))) ELSE 0

\* features['shimmer']
Shimmer(rms) == IF Len(rms) > 1 THEN NpMean(NpAbs(NpDiff(rms))) ELSE 0

\* -10 * log10(mean(spectral_flatness) + 1e-10)
HnrEstimate(a) == 10 * a.flat_exp * Unit

extract_features(a) ==
    LET pv == PitchValues(a)
        f1 == MfccLoop(<<>>, a, 0)
        f2 == PitchStats(f1, pv)
        f3 == DictPut(f2, "jitter", Jitter(pv))
        f4 == DictPut(DictPut(f3, "spectral_centroid_mean", NpMean(SpectralCentroids(a))),
                      "spectral_centroid_std", NpStd(SpectralCentroids(a)))
        f5 == DictPut(DictPut(f4, "zcr_mean", NpMean(Zcr(a))), "zcr_std", NpStd(Zcr(a)))
        f6 == DictPut(DictPut(f5, "rms_mean", NpMean(a.rms)), "rms_std", NpStd(a.rms))
        f7 == DictPut(f6, "shimmer", Shimmer(a.rms))
    IN  DictPut(f7, "hnr", HnrEstimate(a))

-----------------------------------------------------------------------------
(* Feature pipeline: FeatureExtractor.extract_from_file, then features_to_array *)

\* self.model = None / self.scaler = None
NoModel == [gen |-> 0, kind |-> None]
NoScaler == [gen |-> 0, n_features |-> 0]

NoCall == [op |-> None, outcome |-> None, prediction |-> -1, probability |-> -1]

\* PredictionModel.__init__, before the application has started
InitGateway ==
    /\ model = NoModel /\ scaler = NoScaler /\ is_loaded = FALSE
    /\ model_path = None /\ scaler_path = None
    /\ started = FALSE /\ loads = 0 /\ ok_loads = 0
    /\ last = NoCall

NoFile == [exists |-> FALSE, size |-> 0, name |-> <<>>, decodable |-> FALSE,
           duration |-> 0, sample_rate |-> 0]

NoReport == [done |-> FALSE, valid |-> FALSE, raised |-> None, reason |-> None,
             duration |-> 0, sample_rate |-> 0, file_size_mb |-> 0, format |-> <<>>]

NoPrep == [done |-> FALSE, raised |-> None, sample_rate |-> 0]

InitAudio ==
    /\ file = NoFile /\ checks = <<>> /\ validation = NoReport /\ prep = NoPrep

InitFeatures ==
    /\ audio = None /\ features = <<>> /\ array = <<>>

\* the random module before anything has seeded it
Unseeded == [seed |-> -1, pos |-> 0]

NoResult == [done |-> FALSE, raised |-> None]

\* no predict call remembered
NoPrev == [model |-> NoModel, scaler |-> NoScaler, array |-> <<>>,
           prediction |-> -1, probability |-> -1]

InitService ==
    /\ result = NoResult /\ rng = Unseeded /\ prev = NoPrev

InitScores ==
    /\ inputs = <<>> /\ scores = <<>>

InitThreads ==
    /\ threads = <<>>

NoMetrics == [done |-> FALSE]
NoDocument == [done |-> FALSE]
NoSubmit == [pc |-> 0]
NoRace == [pc |-> None]

InitFlow ==
    /\ metrics = NoMetrics /\ seen = NoMetrics /\ document = NoDocument
    /\ submit = NoSubmit /\ race = NoRace

Init == InitGateway /\ InitAudio /\ InitFeatures /\ InitService /\ InitScores /\ InitThreads /\ InitFlow

\* one request: the decoded buffer is fixed when the request starts
InitFeaturePipeline ==
    /\ InitGateway /\ InitAudio /\ InitService /\ InitScores /\ InitThreads /\ InitFlow
    /\ audio \in Audios /\ features = <<>> /\ array = <<>>

\* feature_extractor.extract_from_file(file_path)
ExtractFromFile ==
    /\ features = <<>>
    /\ features' = extract_features(audio)
    /\ UNCHANGED <<audio, array, gatewayVars, audioVars, serviceVars, scoreVars, threads, flowVars>>

\* audio_service.features_to_array(features_dict)
FeaturesToArray ==
    /\ features # <<>> /\ array = <<>>
    /\ array' = features_to_array(features)
    /\ UNCHANGED <<audio, features, gatewayVars, audioVars, serviceVars, scoreVars, threads, flowVars>>

NextFeatures ==
    \/ ExtractFromFile
    \/ FeaturesToArray

SpecFeatures == InitFeaturePipeline /\ [][NextFeatures]_vars

-----------------------------------------------------------------------------
(* Properties of the feature pipeline *)

\* the order documented for the classifier input
DocumentedOrder ==
    <<"mfcc_1_mean", "mfcc_2_mean", "mfcc_3_mean", "mfcc_4_mean", "mfcc_5_mean",
      "mfcc_6_mean", "mfcc_7_mean", "mfcc_8_mean", "mfcc_9_mean", "mfcc_10_mean",
      "mfcc_11_mean", "mfcc_12_mean", "mfcc_13_mean",
      "mfcc_1_std", "mfcc_2_std", "mfcc_3_std", "mfcc_4_std", "mfcc_5_std",
      "mfcc_6_std", "mfcc_7_std", "mfcc_8_std", "mfcc_9_std", "mfcc_10_std",
      "mfcc_11_std", "mfcc_12_std", "mfcc_13_std",
      "pitch_mean", "pitch_std", "pitch_min", "pitch_max",
      "jitter", "shimmer",
      "spectral_centroid_mean", "spectral_centroid_std",
      "zcr_mean", "zcr_std",
      "rms_mean", "rms_std",
      "hnr">>

SeqRange(s) == {s[i] : i \in 1..Len(s)}

NoVoicedFrame == \A t \in 1..Len(audio.pitch) : audio.pitch[t] = 0

\* C8: the array built from an extracted feature mapping has exactly 39
\* values, the i-th being the mapping's value for the i-th documented name,
\* also when the buffer has no voiced pitch frame.
C8_ArrayHas39InOrder ==
    array # <<>> =>
        /\ Len(array) = 39
        /\ \A i \in 1..39 :
              /\ DocumentedOrder[i] \in DOMAIN features
              /\ array[i] = features[DocumentedOrder[i]]

C8_Witness ==
    /\ array # <<>> /\ Len(array) = 39
    /\ NoVoicedFrame
    /\ array[27] = 0 /\ array[31] = 0

\* C9: features_to_array's name list and FeatureExtractor.feature_names are the
\* same 39-name sequence, and extract_features writes exactly those 39 keys,
\* so no array position takes the 0.0 default and no key is left out.
C9_SingleOrderingContract ==
    /\ Len(feature_order) = 39
    /\ Len(_get_feature_names) = 39
    /\ \A i \in 1..39 : feature_order[i] = _get_feature_names[i]
    /\ Cardinality(SeqRange(_get_feature_names)) = 39
    /\ features # <<>> => DOMAIN features = SeqRange(_get_feature_names)
    /\ array # <<>> => \A i \in 1..Len(feature_order) : feature_order[i] \in DOMAIN features

C9_Witness ==
    /\ features # <<>> /\ array # <<>>
    /\ Cardinality(DOMAIN features) = 39

RECURSIVE AbsDiffTotal(_, _)
AbsDiffTotal(s, i) ==
    IF i >= Len(s) THEN 0
    ELSE (IF s[i + 1] >= s[i] THEN s[i + 1] - s[i] ELSE s[i] - s[i + 1])
         + AbsDiffTotal(s, i + 1)

\* mean absolute difference of consecutive elements, for Len(s) >= 2
MeanAbsDiff(s) == (AbsDiffTotal(s, 1) * Unit) \div (Len(s) - 1)

RECURSIVE VoicedFrom(_, _)
VoicedFrom(p, t) ==
    IF t > Len(p) THEN <<>>
    ELSE (IF p[t] > 0 THEN <<p[t]>> ELSE <<>>) \o VoicedFrom(p, t + 1)

\* C10: without a voiced frame the four pitch statistics are 0.0; jitter is 0.0
\* with fewer than 2 voiced frames and else the mean absolute difference of
\* consecutive voiced pitches; shimmer is 0.0 with fewer than 2 RMS frames and
\* else the mean absolute difference of consecutive RMS values.
C10_DegenerateDefaults ==
    features # <<>> =>
        LET v == VoicedFrom(audio.pitch, 1)
        IN  /\ Len(v) = 0 => /\ features["pitch_mean"] = 0
                             /\ features["pitch_std"] = 0
                             /\ features["pitch_min"] = 0
                             /\ features["pitch_max"] = 0
            /\ Len(v) < 2 => features["jitter"] = 0
            /\ Len(v) >= 2 => features["jitter"] = MeanAbsDiff(v)
            /\ Len(audio.rms) < 2 => features["shimmer"] = 0
            /\ Len(audio.rms) >= 2 => features["shimmer"] = MeanAbsDiff(audio.rms)

C10_Witness ==
    /\ features # <<>>
    /\ NoVoicedFrame /\ Len(audio.rms) = 1
    /\ features["pitch_max"] = 0 /\ features["jitter"] = 0 /\ features["shimmer"] = 0

-----------------------------------------------------------------------------
(* PredictionModel: load_model and predict *)

\* What a classifier pickle unpickles to: a classifier with predict_proba only
\* (RandomForestClassifier), one with predict_proba and decision_function
\* (LogisticRegression), one with decision_function only, or one with predict
\* only.
ModelKinds == {"proba", "proba_decision", "decision", "label"}

\* hasattr(self.model, 'predict_proba')
HasPredictProba(m) == m.kind \in {"proba", "proba_decision"}

\* hasattr(self.model, 'decision_function')
HasDecisionFunction(m) == m.kind \in {"proba_decision", "decision"}

\* what load_model finds at model_path / scaler_path
ModelFiles == {"missing", "corrupt"} \cup ModelKinds
ScalerFiles == {"missing", "corrupt", "fitted"}

DefaultModelPath == "ml_training/models/parkinson_voice_model.pkl"
DefaultScalerPath == "ml_training/models/scaler.pkl"
ModelPaths == {DefaultModelPath, "custom_model.pkl"}
ScalerPaths == {DefaultScalerPath, "custom_scaler.pkl"}

\* the width the training data had when the scaler was fitted
N_FEATURES == 39

\* load_model's control flow: the two exists() checks, then the two
\* pickle.load calls inside the try block
LoadOutcome(mfile, sfile) ==
    IF mfile = "missing" THEN "model_not_found"
    ELSE IF sfile = "missing" THEN "scaler_not_found"
    ELSE IF mfile = "corrupt" THEN "model_corrupt"
    ELSE IF sfile = "corrupt" THEN "scaler_corrupt"
    ELSE "ok"

\* self.model after the call: assigned as soon as the model pickle has loaded
ModelAfterLoad(outcome, old, new) ==
    IF outcome \in {"scaler_corrupt", "ok"} THEN new ELSE old

\* self.scaler after the call
ScalerAfterLoad(outcome, old, new) ==
    IF outcome = "ok" THEN new ELSE old

\* self.is_loaded after the call: set once both pickles have loaded
LoadedAfterLoadEarly(outcome, old) ==
    IF outcome \in {"scaler_corrupt", "ok"} THEN TRUE ELSE old

LoadedAfterLoad(outcome, old) ==
    IF outcome = "ok" THEN TRUE ELSE old

\* the body of load_model, called as `caller`
LoadModelBody(caller, mp, sp, mfile, sfile) ==
    LET outcome == LoadOutcome(mfile, sfile)
        gen == loads + 1
    IN  /\ loads < MaxLoads
        /\ model_path' = mp
        /\ scaler_path' = sp
        /\ model' = ModelAfterLoad(outcome, model, [gen |-> gen, kind |-> mfile])
        /\ scaler' = ScalerAfterLoad(outcome, scaler, [gen |-> gen, n_features |-> N_FEATURES])
        /\ is_loaded' = LoadedAfterLoad(outcome, is_loaded)
        /\ loads' = gen
        /\ ok_loads' = IF outcome = "ok" THEN ok_loads + 1 ELSE ok_loads
        /\ last' = [op |-> caller, outcome |-> outcome, prediction |-> -1, probability |-> -1]

\* prediction_model.load_model(model_path, scaler_path); an error reaches the caller
LoadModel(mp, sp, mfile, sfile) ==
    /\ LoadModelBody("load_model", mp, sp, mfile, sfile)
    /\ UNCHANGED <<started, audioVars, featureVars, serviceVars, scoreVars, threads, flowVars>>

\* main.startup_db_client: load_model() with the default paths, any error
\* printed and swallowed
Startup(mfile, sfile) ==
    /\ ~started
    /\ started' = TRUE
    /\ LoadModelBody("startup", DefaultModelPath, DefaultScalerPath, mfile, sfile)
    /\ UNCHANGED <<audioVars, featureVars, serviceVars, scoreVars, threads, flowVars>>

\* The unpickled artifacts are opaque: a fitted scaler and classifier are
\* deterministic functions of their input, here fixed by the load that
\* produced them.
TransformRaises(sc, x) == sc = NoScaler \/ Len(x) # sc.n_features

\* self.scaler.transform(features)
ScalerTransform(sc, x) == [i \in 1..Len(x) |-> x[i] - sc.gen * Unit]

Score(m, xs) == ((SumSeq(xs) \div Unit + m.gen) % 5) - 2

\* self.model.predict(features_scaled)[0]
ClassifierPredict(m, xs) == IF Score(m, xs) > 0 THEN 1 ELSE 0

\* self.model.predict_proba(features_scaled)[0, 1], per mille
ClassifierProba(m, xs) == (Score(m, xs) + 2) * 250

\* self.model.decision_function(features_scaled)[0]
DecisionFunction(m, xs) == Score(m, xs)

\* 1 / (1 + np.exp(-decision)), per mille
Sigmoid(d) ==
    CASE d <= -2 -> 119 [] d = -1 -> 269 [] d = 0 -> 500 [] d = 1 -> 731 [] OTHER -> 881

\* the probability cascade of predict, per mille
ProbabilityDecisionFirst(m, xs) ==
    IF HasDecisionFunction(m) THEN Sigmoid(DecisionFunction(m, xs))
    ELSE IF HasPredictProba(m) THEN ClassifierProba(m, xs)
    ELSE ClassifierPredict(m, xs) * 1000

Probability(m, xs) ==
    IF HasPredictProba(m) THEN ClassifierProba(m, xs)
    ELSE IF HasDecisionFunction(m) THEN Sigmoid(DecisionFunction(m, xs))
    ELSE ClassifierPredict(m, xs) * 1000

\* PredictionModel.predict(features): what the call returns or raises
PredictCall(x) ==
    IF ~is_loaded
    THEN [op |-> "predict", outcome |-> "not_loaded", prediction |-> -1, probability |-> -1]
    ELSE IF TransformRaises(scaler, x) \/ model = NoModel
    THEN [op |-> "predict", outcome |-> "predict_error", prediction |-> -1, probability |-> -1]
    ELSE LET xs == ScalerTransform(scaler, x)
         IN [op |-> "predict", outcome |-> "ok",
             prediction |-> ClassifierPredict(model, xs),
             probability |-> Probability(model, xs)]

\* a direct predict call on an array
Predict(x) ==
    /\ last' = PredictCall(x)
    /\ array' = x
    /\ features' = <<>>
    /\ UNCHANGED <<model, scaler, is_loaded, model_path, scaler_path, started, loads,
                   ok_loads, audio, audioVars, serviceVars, scoreVars, threads, flowVars>>

\* generate_prediction lines 62-65: features_to_array on a feature mapping,
\* then predict on the array
PredictFromFeatures(fd) ==
    /\ features' = fd
    /\ array' = features_to_array(fd)
    /\ last' = [PredictCall(features_to_array(fd)) EXCEPT !.op = "predict_features"]
    /\ UNCHANGED <<model, scaler, is_loaded, model_path, scaler_path, started, loads,
                   ok_loads, audio, audioVars, serviceVars, scoreVars, threads, flowVars>>

\* feature mappings handed to the gateway: two extracted ones, and the same
\* with one name absent
SampleAudios ==
    {[pitch |-> <<1, 0, 2>>, rms |-> <<0, 1, 1>>, aux |-> <<1, 0, 1>>, flat_exp |-> 3],
     [pitch |-> <<0>>, rms |-> <<1>>, aux |-> <<0>>, flat_exp |-> 10]}

DictDrop(d, k) == [x \in (DOMAIN d) \ {k} |-> d[x]]

FeatureDicts ==
    {extract_features(a) : a \in SampleAudios}
    \cup {DictDrop(extract_features(a), "hnr") : a \in SampleAudios}

\* arrays handed to predict directly: the 5-value array of the unit test and
\* the arrays of the sample mappings
RawArrays == {<<1, 2, 3, 4, 5>>} \cup {features_to_array(fd) : fd \in FeatureDicts}

Next ==
    \/ \E mfile \in ModelFiles, sfile \in ScalerFiles : Startup(mfile, sfile)
    \/ \E mp \in ModelPaths, sp \in ScalerPaths, mfile \in ModelFiles, sfile \in ScalerFiles :
          LoadModel(mp, sp, mfile, sfile)
    \/ \E x \in RawArrays : Predict(x)
    \/ \E fd \in FeatureDicts : PredictFromFeatures(fd)

Spec == Init /\ [][Next]_vars

-----------------------------------------------------------------------------
(* Properties of the gateway *)

LoadFailed(l) == l.op \in {"load_model", "startup"} /\ l.outcome # "ok"

\* C1: a load_model call that fails leaves model, scaler and is_loaded as they
\* were before the call.
C1_FailedLoadLeavesState ==
    [][LoadFailed(last') /\ loads' = loads + 1 =>
          model' = model /\ scaler' = scaler /\ is_loaded' = is_loaded]_vars

\* C2: as long as no load_model call has succeeded (the startup load
\* included), every predict call raises 'Model not loaded' and returns no
\* prediction.
C2_NotLoadedUntilLoadSucceeds ==
    (last.op \in {"predict", "predict_features"} /\ ok_loads = 0) =>
        /\ last.outcome = "not_loaded"
        /\ last.prediction = -1 /\ last.probability = -1

C2_Witness ==
    /\ started /\ loads >= 2 /\ ok_loads = 0
    /\ model # NoModel
    /\ last.op = "predict" /\ last.outcome = "not_loaded"

\* C3: a feature mapping whose keys are not exactly the 39 expected names never
\* yields a prediction.
C3_KeyMismatchRejected ==
    (last.op = "predict_features" /\ DOMAIN features # SeqRange(DocumentedOrder)) =>
        last.outcome # "ok"

-----------------------------------------------------------------------------
(* AudioService.validate_audio and preprocess_audio *)

\* File names are sequences of characters, so that suffix, lower and lstrip
\* are computed and not assumed.
UpperChars == <<"A", "B", "C", "D", "E", "F", "G", "H", "I", "J", "K", "L", "M",
                "N", "O", "P", "Q", "R", "S", "T", "U", "V", "W", "X", "Y", "Z">>
LowerChars == <<"a", "b", "c", "d", "e", "f", "g", "h", "i", "j", "k", "l", "m",
                "n", "o", "p", "q", "r", "s", "t", "u", "v", "w", "x", "y", "z">>

\* str.lower, one character
LowerChar(c) ==
    IF \E i \in 1..Len(UpperChars) : UpperChars[i] = c
    THEN LowerChars[CHOOSE i \in 1..Len(UpperChars) : UpperChars[i] = c]
    ELSE c

\* str.lower
Lower(str) == [i \in 1..Len(str) |-> LowerChar(str[i])]

\* str.rfind('.'), 1-based, 0 when there is no dot
RFindDot(str) ==
    IF \E i \in 1..Len(str) : str[i] = "."
    THEN CHOOSE i \in 1..Len(str) : str[i] = "." /\ \A j \in (i + 1)..Len(str) : str[j] # "."
    ELSE 0

\* PurePath.suffix of the final path component: from the last dot on, unless
\* that dot is the first or the last character
Suffix(name) ==
    LET i == RFindDot(name)
    IN IF 1 < i /\ i < Len(name) THEN SubSeq(name, i, Len(name)) ELSE <<>>

\* str.lstrip('.')
RECURSIVE LStripDot(_)
LStripDot(str) == IF str # <<>> /\ Head(str) = "." THEN LStripDot(Tail(str)) ELSE str

\* Path(file_path).suffix.lower().lstrip('.')
FileExtAsIs(name) == LStripDot(Suffix(name))

FileExt(name) == LStripDot(Lower(Suffix(name)))

ALLOWED_FORMATS == <<<<"w", "a", "v">>, <<"w", "e", "b", "m">>, <<"m", "p", "3">>,
                     <<"o", "g", "g">>>>
MAX_FILE_SIZE_MB == 10
MIN_DURATION_SEC == 15
MAX_DURATION_SEC == 60
TARGET_SAMPLE_RATE == 22050

BytesPerMB == 1024 * 1024

\* file_size_mb > MAX_FILE_SIZE_MB, file_size_mb being getsize / (1024 * 1024)
TooLarge(size) == size > MAX_FILE_SIZE_MB * BytesPerMB

\* file_ext not in ALLOWED_FORMATS
Unsupported(ext) == \A i \in 1..Len(ALLOWED_FORMATS) : ALLOWED_FORMATS[i] # ext

\* duration < MIN_DURATION_SEC
TooShortInclusive(d) == d <= MIN_DURATION_SEC * TicksPerSec

TooShort(d) == d < MIN_DURATION_SEC * TicksPerSec

\* duration > MAX_DURATION_SEC
TooLong(d) == d > MAX_DURATION_SEC * TicksPerSec

Rejected(reason) ==
    [done |-> TRUE, valid |-> FALSE, raised |-> "AudioValidationError", reason |-> reason,
     duration |-> 0, sample_rate |-> 0, file_size_mb |-> 0, format |-> <<>>]

\* validate_audio(file_path): the report returned or the error raised, and
\* the checks the call went through
validate_audioExtFirst(f) ==
    IF ~f.exists
    THEN [result |-> Rejected("not_found"), checks |-> <<"exists">>]
    ELSE IF Unsupported(FileExt(f.name))
    THEN [result |-> Rejected("unsupported_format"), checks |-> <<"exists", "extension">>]
    ELSE IF TooLarge(f.size)
    THEN [result |-> Rejected("too_large"), checks |-> <<"exists", "extension", "size">>]
    ELSE IF ~f.decodable
    THEN [result |-> Rejected("read_error"),
          checks |-> <<"exists", "extension", "size", "decode">>]
    ELSE IF TooShort(f.duration)
    THEN [result |-> Rejected("too_short"),
          checks |-> <<"exists", "extension", "size", "decode", "duration">>]
    ELSE IF TooLong(f.duration)
    THEN [result |-> Rejected("too_long"),
          checks |-> <<"exists", "extension", "size", "decode", "duration">>]
    ELSE [result |-> [done |-> TRUE, valid |-> TRUE, raised |-> None, reason |-> None,
                      duration |-> f.duration, sample_rate |-> f.sample_rate,
                      file_size_mb |-> (f.size * Unit) \div BytesPerMB,
                      format |-> FileExt(f.name)],
          checks |-> <<"exists", "extension", "size", "decode", "duration">>]

validate_audio(f) ==
    IF ~f.exists
    THEN [result |-> Rejected("not_found"), checks |-> <<"exists">>]
    ELSE IF TooLarge(f.size)
    THEN [result |-> Rejected("too_large"), checks |-> <<"exists", "size">>]
    ELSE IF Unsupported(FileExt(f.name))
    THEN [result |-> Rejected("unsupported_format"), checks |-> <<"exists", "size", "extension">>]
    ELSE IF ~f.decodable
    THEN [result |-> Rejected("read_error"),
          checks |-> <<"exists", "size", "extension", "decode">>]
    ELSE IF TooShort(f.duration)
    THEN [result |-> Rejected("too_short"),
          checks |-> <<"exists", "size", "extension", "decode", "duration">>]
    ELSE IF TooLong(f.duration)
    THEN [result |-> Rejected("too_long"),
          checks |-> <<"exists", "size", "extension", "decode", "duration">>]
    ELSE [result |-> [done |-> TRUE, valid |-> TRUE, raised |-> None, reason |-> None,
                      duration |-> f.duration, sample_rate |-> f.sample_rate,
                      file_size_mb |-> (f.size * Unit) \div BytesPerMB,
                      format |-> FileExt(f.name)],
          checks |-> <<"exists", "size", "extension", "decode", "duration">>]

\* preprocess_audio(file_path): librosa.load at the target rate, normalize,
\* trim; nothing catches what librosa.load raises
preprocess_audio(decodes) ==
    IF decodes
    THEN [done |-> TRUE, raised |-> None, sample_rate |-> TARGET_SAMPLE_RATE]
    ELSE [done |-> TRUE, raised |-> "DecodeError", sample_rate |-> 0]

\* the files a request can bring
FileNames ==
    {<<"a", ".", "w", "a", "v">>, <<"a", ".", "W", "A", "V">>, <<"a", ".", "M", "p", "3">>,
     <<"a", ".", "w", "e", "b", "m">>, <<"a", ".", "o", "g", "g">>, <<"a", ".", "t", "x", "t">>,
     <<"w", "a", "v">>, <<".", "w", "a", "v">>, <<"a", ".", "w", "a", "v", ".">>}

FileSizes == {0, 1, MAX_FILE_SIZE_MB * BytesPerMB, MAX_FILE_SIZE_MB * BytesPerMB + 1}

Durations ==
    {0, MIN_DURATION_SEC * TicksPerSec - 1, MIN_DURATION_SEC * TicksPerSec,
     20 * TicksPerSec, MAX_DURATION_SEC * TicksPerSec, MAX_DURATION_SEC * TicksPerSec + 1,
     70 * TicksPerSec}

\* An absent file has no attributes; an empty file has no audio to decode; a
\* file that does not decode has no duration.
Files ==
    {f \in [exists : BOOLEAN, size : FileSizes, name : FileNames, decodable : BOOLEAN,
            duration : Durations, sample_rate : {0, 44100}] :
        /\ ~f.exists => f.size = 0 /\ ~f.decodable
        /\ f.size = 0 => ~f.decodable
        /\ f.decodable <=> f.sample_rate # 0
        /\ ~f.decodable => f.duration = 0}

InitAudioPipeline ==
    /\ InitGateway /\ InitFeatures /\ InitService /\ InitScores /\ InitThreads /\ InitFlow
    /\ file \in Files
    /\ checks = <<>> /\ validation = NoReport /\ prep = NoPrep

\* prediction_service.validate_and_process_audio(file_location)
ValidateAudio ==
    /\ ~validation.done
    /\ validation' = validate_audio(file).result
    /\ checks' = validate_audio(file).checks
    /\ UNCHANGED <<file, prep, gatewayVars, featureVars, serviceVars, scoreVars, threads, flowVars>>

\* extract_features' first step, once validation has passed: the second decode
\* of the same file can fail although the first succeeded
PreprocessAudio(decodes) ==
    /\ validation.done /\ validation.valid
    /\ ~prep.done
    /\ prep' = preprocess_audio(decodes)
    /\ UNCHANGED <<file, checks, validation, gatewayVars, featureVars, serviceVars, scoreVars, threads, flowVars>>

NextAudio ==
    \/ ValidateAudio
    \/ \E decodes \in BOOLEAN : PreprocessAudio(decodes)

SpecAudio == InitAudioPipeline /\ [][NextAudio]_vars

-----------------------------------------------------------------------------
(* Properties of validation and preprocessing *)

MaxBytes == 10 * 1024 * 1024

UpperChar(c) ==
    IF \E i \in 1..26 : LowerChars[i] = c
    THEN UpperChars[CHOOSE i \in 1..26 : LowerChars[i] = c]
    ELSE c

SameIgnoringCase(s, t) ==
    Len(s) = Len(t) /\ \A i \in 1..Len(s) : UpperChar(s[i]) = UpperChar(t[i])

\* the name ends in ".<fmt>" for an allowed fmt, compared without regard to
\* case, the dot not being the first character of the name
ExtensionAllowed(name) ==
    \E fmt \in {<<"w", "a", "v">>, <<"w", "e", "b", "m">>, <<"m", "p", "3">>, <<"o", "g", "g">>} :
        LET k == Len(name) - Len(fmt)
        IN  /\ k > 1
            /\ name[k] = "."
            /\ SameIgnoringCase(SubSeq(name, k + 1, Len(name)), fmt)

SizeOk(f) == f.size <= MaxBytes

\* the check whose failure decides the outcome, in the documented order
FirstFailure(f) ==
    IF ~f.exists THEN "not_found"
    ELSE IF ~SizeOk(f) THEN "too_large"
    ELSE IF ~ExtensionAllowed(f.name) THEN "unsupported_format"
    ELSE IF ~f.decodable THEN "read_error"
    ELSE IF f.duration < 15 * TicksPerSec THEN "too_short"
    ELSE IF f.duration > 60 * TicksPerSec THEN "too_long"
    ELSE None

ChecksUpTo(reason) ==
    CASE reason = "not_found" -> <<"exists">>
      [] reason = "too_large" -> <<"exists", "size">>
      [] reason = "unsupported_format" -> <<"exists", "size", "extension">>
      [] reason = "read_error" -> <<"exists", "size", "extension", "decode">>
      [] OTHER -> <<"exists", "size", "extension", "decode", "duration">>

\* C4: validate_audio checks existence, size, extension, decodability and
\* duration in this order and stops at the first failing check: the error is
\* that of the earliest failing check and no later check is run.
C4_FirstFailureWins ==
    validation.done =>
        /\ validation.reason = FirstFailure(file)
        /\ checks = ChecksUpTo(FirstFailure(file))

C4_Witness ==
    /\ validation.done
    /\ file.exists /\ ~SizeOk(file) /\ ~ExtensionAllowed(file.name)
    /\ validation.reason = "too_large"
    /\ checks = <<"exists", "size">>

\* C5: a report is returned exactly when the file exists, has at most 10 MB,
\* an allowed extension (case-insensitively), decodes and lasts between 15 and
\* 60 seconds, both inclusive; otherwise AudioValidationError is raised, too
\* short below 15 s and too long above 60 s.
C5_AcceptsExactlyValidFiles ==
    validation.done =>
        LET ok == /\ file.exists /\ SizeOk(file) /\ ExtensionAllowed(file.name)
                  /\ file.decodable
                  /\ 15 * TicksPerSec <= file.duration
                  /\ file.duration <= 60 * TicksPerSec
            upToDuration == /\ file.exists /\ SizeOk(file) /\ ExtensionAllowed(file.name)
                            /\ file.decodable
        IN  /\ validation.valid <=> ok
            /\ validation.valid =>
                  /\ validation.raised = None
                  /\ validation.duration = file.duration
                  /\ validation.sample_rate = file.sample_rate
                  /\ validation.file_size_mb = (file.size * Unit) \div (1024 * 1024)
                  /\ SameIgnoringCase(validation.format,
                        SubSeq(file.name, Len(file.name) - Len(validation.format) + 1,
                               Len(file.name)))
            /\ ~validation.valid => validation.raised = "AudioValidationError"
            /\ (upToDuration /\ file.duration < 15 * TicksPerSec) =>
                  validation.reason = "too_short"
            /\ (upToDuration /\ file.duration > 60 * TicksPerSec) =>
                  validation.reason = "too_long"

C5_Witness ==
    /\ validation.done /\ validation.valid
    /\ file.duration = 15 * TicksPerSec
    /\ file.size = MaxBytes
    /\ file.name = <<"a", ".", "W", "A", "V">>

ZeroByteFile == file.exists /\ file.size = 0

\* C6 as stated: a 0-byte file is rejected with the not-found error or the size
\* error.
C6_ZeroByteNotFoundOrSize ==
    (validation.done /\ ZeroByteFile) => validation.reason \in {"not_found", "too_large"}

\* C6, amended: a 0-byte file is rejected with the unsupported-format error when
\* its extension is not allowed, and with the error-reading error otherwise.
C6_ZeroByteRejected ==
    (validation.done /\ ZeroByteFile) =>
        /\ ~validation.valid
        /\ validation.raised = "AudioValidationError"
        /\ validation.reason =
              IF ExtensionAllowed(file.name) THEN "read_error" ELSE "unsupported_format"

C6_Witness ==
    /\ validation.done /\ ZeroByteFile
    /\ file.name = <<"a", ".", "W", "A", "V">>
    /\ validation.reason = "read_error"

\* C7: a decode error raised while preprocessing, after validation passed,
\* reaches the caller as an AudioValidationError.
C7_DecodeErrorIsValidationError ==
    (prep.done /\ prep.raised # None) => prep.raised = "AudioValidationError"

-----------------------------------------------------------------------------
(* Python floats *)

\* A probability and everything the score functions compute from it is an
\* IEEE-754 double.  A non-negative double below 2^IntBits is held as its
\* binary digits, most significant first: IntBits integer digits followed by
\* FracBits fractional digits.  Every double the score functions meet on the
\* probabilities used here is a multiple of 2^-FracBits, so the digits are
\* exact and rounding is the only place where precision is lost.
IntBits == 8           \* integer digits held
FracBits == 64         \* fractional digits held
MantissaBits == 53     \* significant digits of a double

\* a digit string given digit by digit, as a tuple
Tuple(f) == f \o <<>>

\* 2^n mod d, by repeated squaring
RECURSIVE Pow2Mod(_, _)
Pow2Mod(n, d) ==
    IF n = 0 THEN 1 % d
    ELSE LET h == Pow2Mod(n \div 2, d)
         IN (h * h * (IF n % 2 = 1 THEN 2 ELSE 1)) % d

\* the digits of an integer 0 <= n < 2^w, w digits
IntDigits(n, w) == Tuple([i \in 1..w |-> (n \div (2 ^ (w - i))) % 2])

\* what is left of r / d after n fractional digits, for 0 <= r < d
FracRest(r, d, n) == (r * Pow2Mod(n, d)) % d

\* the first n fractional digits of r / d, for 0 <= r < d
FracDigits(r, d, n) == Tuple([i \in 1..n |-> (2 * FracRest(r, d, i - 1)) \div d])

\* position of the leading 1, 0 for zero
LeadingOne(x) ==
    IF \E i \in 1..Len(x) : x[i] = 1
    THEN CHOOSE i \in 1..Len(x) : x[i] = 1 /\ \A j \in 1..(i - 1) : x[j] = 0
    ELSE 0

\* x + 2^-(pos - IntBits), for x with zero digits after pos
BumpAt(x, pos) ==
    LET j == CHOOSE i \in 0..pos :
                 /\ i = 0 \/ x[i] = 0
                 /\ \A t \in (i + 1)..pos : x[t] = 1
    IN Tuple([i \in 1..Len(x) |-> IF i = j THEN 1 ELSE IF i > j /\ i <= pos THEN 0 ELSE x[i]])

\* round to nearest double, ties to even; sticky tells that the exact value
\* is above the digits given
RoundToDouble(x, sticky) ==
    LET m == LeadingOne(x)
        lsb == m + MantissaBits - 1
    IN IF m = 0 \/ lsb >= Len(x) THEN x
       ELSE LET kept == Tuple([i \in 1..Len(x) |-> IF i <= lsb THEN x[i] ELSE 0])
                half == x[lsb + 1] = 1
                above == sticky \/ \E i \in (lsb + 2)..Len(x) : x[i] = 1
            IN IF half /\ (above \/ x[lsb] = 1) THEN BumpAt(kept, lsb) ELSE kept

\* float(k / d) for integers 0 <= k <= d: the double nearest to the quotient
Double(k, d) ==
    RoundToDouble(IntDigits(k \div d, IntBits) \o FracDigits(k % d, d, FracBits),
                  FracRest(k % d, d, FracBits) # 0)

\* exact sum of digit strings: the carry into digit i comes from the nearest
\* lower position where both digits are 1, through positions holding one 1
AddDigits(x, y) ==
    LET carry(i) == \E j \in (i + 1)..Len(x) :
                        /\ x[j] = 1 /\ y[j] = 1
                        /\ \A t \in (i + 1)..(j - 1) : x[t] + y[t] = 1
    IN Tuple([i \in 1..Len(x) |-> (x[i] + y[i] + (IF carry(i) THEN 1 ELSE 0)) % 2])

\* exact difference x - y of digit strings, for x >= y
SubDigits(x, y) ==
    LET borrow(i) == \E j \in (i + 1)..Len(x) :
                         /\ x[j] < y[j]
                         /\ \A t \in (i + 1)..(j - 1) : x[t] = y[t]
    IN Tuple([i \in 1..Len(x) |-> (x[i] - y[i] - (IF borrow(i) THEN 1 ELSE 0) + 2) % 2])

\* x * 2^n, exact
ShiftLeft(x, n) == Tuple([i \in 1..Len(x) |-> IF i + n <= Len(x) THEN x[i + n] ELSE 0])

\* x < y
Less(x, y) == \E i \in 1..Len(x) : x[i] < y[i] /\ \A j \in 1..(i - 1) : x[j] = y[j]

\* float subtraction x - y for x >= y
FSub(x, y) == RoundToDouble(SubDigits(x, y), FALSE)

\* abs(x - y)
FAbsDiff(x, y) == IF Less(x, y) THEN FSub(y, x) ELSE FSub(x, y)

\* x * 2: exact in binary
FMul2(x) == ShiftLeft(x, 1)

\* x * 100 = 64 x + 32 x + 4 x, rounded once
FMul100(x) ==
    LET x64 == ShiftLeft(x, 6)
        x32 == ShiftLeft(x, 5)
        x4 == ShiftLeft(x, 2)
    IN RoundToDouble(AddDigits(AddDigits(x64, x32), x4), FALSE)

\* int(x) for x >= 0: the integer digits
RECURSIVE DigitsValue(_, _)
DigitsValue(x, n) == IF n = 0 THEN 0 ELSE 2 * DigitsValue(x, n - 1) + x[n]

IntOf(x) == DigitsValue(x, IntBits)

-----------------------------------------------------------------------------
(* PredictionModel: the score functions *)

Max(a, b) == IF a >= b THEN a ELSE b
Min(a, b) == IF a <= b THEN a ELSE b

\* the float literals of the score functions
Lit_0_3 == Double(3, 10)
Lit_0_5 == Double(1, 2)
Lit_0_7High == Double(8, 10)
Lit_0_7 == Double(7, 10)
Lit_1 == Double(1, 1)

\* calculate_risk_level(probability)
calculate_risk_levelInclusive(p) ==
    IF ~Less(Lit_0_3, p) THEN "low"
    ELSE IF ~Less(Lit_0_7, p) THEN "medium"
    ELSE "high"

calculate_risk_level(p) ==
    IF Less(p, Lit_0_3) THEN "low"
    ELSE IF Less(p, Lit_0_7) THEN "medium"
    ELSE "high"

\* calculate_confidence(probability)
calculate_confidenceUnclamped(p) ==
    LET distance_from_uncertain == FAbsDiff(p, Lit_0_5)
        confidence == IntOf(FMul100(FMul2(distance_from_uncertain)))
    IN Min(100, confidence)

calculate_confidence(p) ==
    LET distance_from_uncertain == FAbsDiff(p, Lit_0_5)
        confidence == IntOf(FMul100(FMul2(distance_from_uncertain)))
    IN Max(50, Min(100, confidence))

\* calculate_health_score(probability), for probability <= 1
calculate_health_scoreOfP(p) ==
    LET health_score == IntOf(FMul100(p))
    IN Max(0, Min(100, health_score))

calculate_health_score(p) ==
    LET health_score == IntOf(FMul100(FSub(Lit_1, p)))
    IN Max(0, Min(100, health_score))

\* map_to_status(risk_level): mapping.get(risk_level, 'normal')
map_to_statusNoMedium(risk_level) ==
    CASE risk_level = "low" -> "normal"
      [] risk_level = "high" -> "alert"
      [] OTHER -> "normal"

map_to_status(risk_level) ==
    CASE risk_level = "low" -> "normal"
      [] risk_level = "medium" -> "warning"
      [] risk_level = "high" -> "alert"
      [] OTHER -> "normal"

-----------------------------------------------------------------------------
(* Claims about predict's probability *)

PredictReturned == last.op \in {"predict", "predict_features"} /\ last.outcome = "ok"

\* C11: predict takes the probability from the highest tier the classifier
\* has: predict_proba[0, 1] if it has predict_proba, else the sigmoid of
\* decision_function if it has that, else float(prediction); a lower tier is
\* used only when every higher tier is missing.
C11_ProbabilityTierPriority ==
    PredictReturned =>
        LET xs == ScalerTransform(scaler, array)
        IN  /\ HasPredictProba(model) => last.probability = ClassifierProba(model, xs)
            /\ (~HasPredictProba(model) /\ HasDecisionFunction(model)) =>
                   last.probability = Sigmoid(DecisionFunction(model, xs))
            /\ (~HasPredictProba(model) /\ ~HasDecisionFunction(model)) =>
                   last.probability = last.prediction * 1000

C11_Witness ==
    /\ PredictReturned
    /\ HasPredictProba(model) /\ HasDecisionFunction(model)
    /\ LET xs == ScalerTransform(scaler, array)
       IN  /\ last.probability = ClassifierProba(model, xs)
           /\ last.probability # Sigmoid(DecisionFunction(model, xs))

-----------------------------------------------------------------------------
(* The score functions applied to chosen probabilities *)

\* the probabilities scored: k / d for d in Denominators, 0 <= k <= d
Denominators == {8, 1000}

\* with each probability p a second one is scored: the next one up, or 1 - p
Relations == {"next", "mirror"}

NoScore == [probability |-> <<>>, risk_level |-> None, confidence |-> -1,
            health_score |-> -1, status |-> None]

SecondProbability(in) ==
    IF in.relation = "next" THEN Double(in.num + 1, in.den)
    ELSE FSub(Lit_1, Double(in.num, in.den))

InitScorePipeline ==
    /\ InitGateway /\ InitAudio /\ InitFeatures /\ InitService /\ InitThreads /\ InitFlow
    /\ \E d \in Denominators : \E k \in 0..d : \E r \in Relations :
          /\ r = "next" => k < d
          /\ inputs = [num |-> k, den |-> d, relation |-> r]
          /\ scores = <<[NoScore EXCEPT !.probability = Double(k, d)],
                        [NoScore EXCEPT !.probability = SecondProbability(inputs)]>>

\* the probability being scored: the first one whose scores are incomplete
Current(i) ==
    /\ i \in 1..Len(scores)
    /\ scores[i].status = None
    /\ \A j \in 1..(i - 1) : scores[j].status # None

\* generate_prediction line 68
CalculateRiskLevel ==
    \E i \in 1..Len(scores) :
        /\ Current(i) /\ scores[i].risk_level = None
        /\ scores' = [scores EXCEPT ![i].risk_level = calculate_risk_level(scores[i].probability)]
        /\ UNCHANGED <<inputs, gatewayVars, audioVars, featureVars, serviceVars, threads, flowVars>>

\* generate_prediction line 69
CalculateConfidence ==
    \E i \in 1..Len(scores) :
        /\ Current(i) /\ scores[i].risk_level # None /\ scores[i].confidence = -1
        /\ scores' = [scores EXCEPT ![i].confidence = calculate_confidence(scores[i].probability)]
        /\ UNCHANGED <<inputs, gatewayVars, audioVars, featureVars, serviceVars, threads, flowVars>>

\* generate_prediction line 70
CalculateHealthScore ==
    \E i \in 1..Len(scores) :
        /\ Current(i) /\ scores[i].confidence # -1 /\ scores[i].health_score = -1
        /\ scores' = [scores EXCEPT ![i].health_score = calculate_health_score(scores[i].probability)]
        /\ UNCHANGED <<inputs, gatewayVars, audioVars, featureVars, serviceVars, threads, flowVars>>

\* generate_prediction line 71
MapToStatus ==
    \E i \in 1..Len(scores) :
        /\ Current(i) /\ scores[i].health_score # -1
        /\ scores' = [scores EXCEPT ![i].status = map_to_status(scores[i].risk_level)]
        /\ UNCHANGED <<inputs, gatewayVars, audioVars, featureVars, serviceVars, threads, flowVars>>

NextScores ==
    \/ CalculateRiskLevel
    \/ CalculateConfidence
    \/ CalculateHealthScore
    \/ MapToStatus

SpecScores == InitScorePipeline /\ [][NextScores]_vars

-----------------------------------------------------------------------------
(* Claims about the score functions *)

\* scores[i].probability is the double nearest to ExactNum(i) / inputs.den
Exact(i) == i = 1 \/ inputs.relation = "next"
ExactNum(i) == IF i = 1 THEN inputs.num ELSE inputs.num + 1

\* round(a / b) for integers a >= 0, b > 0: to nearest, ties to even
PyRound(a, b) ==
    LET q == a \div b
        r == a % b
    IN IF 2 * r > b THEN q + 1
       ELSE IF 2 * r < b THEN q
       ELSE IF q % 2 = 0 THEN q ELSE q + 1

AbsInt(a) == IF a < 0 THEN -a ELSE a

\* C14: calculate_risk_level gives low for p < 0.3, medium for
\* 0.3 <= p < 0.7 and high for p >= 0.7; 0.3 itself is medium and 0.7 itself
\* is high.
C14_RiskLevelThresholds ==
    \A i \in 1..Len(scores) :
        (Exact(i) /\ scores[i].risk_level # None) =>
            LET n == ExactNum(i)
                d == inputs.den
                risk == scores[i].risk_level
            IN  /\ risk \in {"low", "medium", "high"}
                /\ risk = "low" <=> 10 * n < 3 * d
                /\ risk = "medium" <=> (3 * d <= 10 * n /\ 10 * n < 7 * d)
                /\ risk = "high" <=> 10 * n >= 7 * d

C14_Witness ==
    /\ Len(scores) = 2
    /\ inputs.relation = "mirror" /\ 10 * inputs.num = 3 * inputs.den
    /\ scores[1].risk_level = "medium"
    /\ scores[2].probability = Lit_0_7 /\ scores[2].risk_level = "high"

\* C15: map_to_status is total on the risk levels (low to normal, medium to
\* warning, high to alert), so in the pipeline the status is normal exactly
\* for p < 0.3, warning exactly for 0.3 <= p < 0.7 and alert exactly for
\* p >= 0.7.
C15_StatusFollowsRisk ==
    /\ map_to_status("low") = "normal"
    /\ map_to_status("medium") = "warning"
    /\ map_to_status("high") = "alert"
    /\ \A i \in 1..Len(scores) :
          (Exact(i) /\ scores[i].status # None) =>
              LET n == ExactNum(i)
                  d == inputs.den
                  status == scores[i].status
              IN  /\ status \in {"normal", "warning", "alert"}
                  /\ status = "normal" <=> 10 * n < 3 * d
                  /\ status = "warning" <=> (3 * d <= 10 * n /\ 10 * n < 7 * d)
                  /\ status = "alert" <=> 10 * n >= 7 * d

C15_Witness ==
    /\ Len(scores) = 2
    /\ inputs.relation = "next" /\ 10 * (inputs.num + 1) = 7 * inputs.den
    /\ scores[1].status = "warning" /\ scores[2].status = "alert"

\* C16: calculate_confidence(p) is round(|p - 0.5| * 2 * 100) clamped to
\* [50, 100].
C16_ConfidenceIsRounded ==
    \A i \in 1..Len(scores) :
        (Exact(i) /\ scores[i].confidence # -1) =>
            LET n == ExactNum(i)
                d == inputs.den
            IN scores[i].confidence = Max(50, Min(100, PyRound(AbsInt(2 * n - d) * 100, d)))

\* C17: the confidence is 50, its minimum, at p = 0.5 and 100, its maximum, at
\* p = 0.0 and p = 1.0; it is symmetric, confidence(p) = confidence(1 - p); and
\* it is at least 80 for p <= 0.1 and for p >= 0.9.
C17_ConfidenceShape ==
    /\ \A i \in 1..Len(scores) :
          scores[i].confidence # -1 =>
              /\ scores[i].confidence >= 50 /\ scores[i].confidence <= 100
              /\ Exact(i) =>
                    LET n == ExactNum(i)
                        d == inputs.den
                    IN  /\ 2 * n = d => scores[i].confidence = 50
                        /\ (n = 0 \/ n = d) => scores[i].confidence = 100
                        /\ (10 * n <= d \/ 10 * n >= 9 * d) => scores[i].confidence >= 80
    /\ (/\ Len(scores) = 2 /\ inputs.relation = "mirror"
        /\ scores[1].confidence # -1 /\ scores[2].confidence # -1) =>
           scores[1].confidence = scores[2].confidence

\* C18: calculate_health_score(p) is round((1 - p) * 100) clamped to [0, 100].
C18_HealthScoreIsRounded ==
    \A i \in 1..Len(scores) :
        (Exact(i) /\ scores[i].health_score # -1) =>
            LET n == ExactNum(i)
                d == inputs.den
            IN scores[i].health_score = Max(0, Min(100, PyRound((d - n) * 100, d)))

\* C19: the health score is 100 at p = 0.0 and 0 at p = 1.0 and never rises
\* as p rises: it is at least 85 for p <= 0.1 and at most 15 for p >= 0.9.
C19_HealthScoreFalls ==
    /\ \A i \in 1..Len(scores) :
          (Exact(i) /\ scores[i].health_score # -1) =>
              LET n == ExactNum(i)
                  d == inputs.den
              IN  /\ n = 0 => scores[i].health_score = 100
                  /\ n = d => scores[i].health_score = 0
                  /\ 10 * n <= d => scores[i].health_score >= 85
                  /\ 10 * n >= 9 * d => scores[i].health_score <= 15
    /\ \A i, j \in 1..Len(scores) :
          (/\ scores[i].health_score # -1 /\ scores[j].health_score # -1
           /\ ~Less(scores[j].probability, scores[i].probability)) =>
              scores[j].health_score <= scores[i].health_score

C19_Witness ==
    /\ Len(scores) = 2
    /\ inputs.relation = "next" /\ inputs.num = 0
    /\ scores[1].health_score = 100
    /\ scores[2].health_score # -1 /\ scores[2].health_score < 100

-----------------------------------------------------------------------------
(* PredictionService.generate_prediction *)

\* random.seed(s) followed by calls of random.randint(-2, 2): row s + 1 holds
\* the values of the first calls after the seed s, for s = 0..100
RandIntStream ==
    <<<<1, 1, -2, 0, 2, 1, 1, 0>>, <<-1, 2, -2, 0, -2, 1, 1, 1>>, <<-2, -2, -2, 0, -1, 0, 0, 2>>, <<-1, 2, 2, -1, 0, 2, 1, 2>>,
      <<-1, 0, -2, 1, 1, -1, -2, -2>>, <<2, 0, 0, 2, -2, 1, -1, -2>>, <<2, -2, 1, 0, -2, -2, -1, 2>>, <<0, -1, 1, -2, -2, 2, -2, 0>>,
      <<-1, 0, 1, -1, -1, -2, -2, -1>>, <<1, 2, 0, 0, -1, -1, -2, 0>>, <<2, -2, 1, 1, 2, -2, -1, 1>>, <<1, 2, 1, 1, 2, 2, -1, -1>>,
      <<1, 0, 2, 0, -1, 1, -2, 0>>, <<0, 0, -1, -1, -1, -1, -1, -1>>, <<-2, 2, 2, -1, 0, 0, 0, -2>>, <<-1, -2, 2, -2, -1, -1, -2, -2>>,
      <<0, 1, 1, 0, 1, -1, 1, -2>>, <<2, 1, 0, 0, 0, -1, 2, 0>>, <<-1, -2, 1, 0, -1, -1, 1, 1>>, <<-2, 2, -2, 2, -1, 1, 0, 2>>,
      <<-1, 0, -2, 0, 2, -1, -2, 1>>, <<-1, 1, 1, 0, 1, -1, 1, 2>>, <<-1, -1, -2, 2, 1, -1, -2, 0>>, <<0, -2, -2, 2, 0, 1, 1, 2>>,
      <<1, 2, -1, -1, -1, -1, -1, -2>>, <<1, -2, -1, 0, 1, -2, 0, -2>>, <<-1, -1, 1, 2, 2, -2, -1, 1>>, <<1, 0, 0, -1, -2, -2, 0, 2>>,
      <<-2, -1, 2, 2, -1, -1, -1, 1>>, <<2, -2, 0, 2, 2, 0, -2, 2>>, <<2, 0, 2, -2, 2, -1, 0, -2>>, <<-2, 1, -2, 1, -1, -2, -1, -2>>,
      <<-2, -1, -1, 0, -1, 1, -2, -2>>, <<2, -1, -1, 0, 1, 2, 2, -1>>, <<2, 0, 2, -2, -1, -2, 1, 0>>, <<2, 0, -1, 0, -1, 0, 1, 0>>,
      <<0, -2, -2, 0, -2, -2, 2, -1>>, <<2, -2, 2, 2, -2, 0, 1, 2>>, <<1, 1, -2, -2, 0, 1, 0, -2>>, <<-1, 0, 1, -2, -1, -1, 1, 2>>,
      <<1, 2, 2, -2, -1, 0, -1, -1>>, <<1, 0, -1, -1, 1, 2, 0, 2>>, <<-2, -2, 0, -1, -1, -1, -2, 2>>, <<-2, 0, -1, 1, 0, -2, 1, 2>>,
      <<1, 2, 2, -2, -1, 1, -1, 0>>, <<0, 1, 1, 0, -2, 0, 0, -2>>, <<-2, 1, -2, 2, 2, -1, 2, -1>>, <<0, -2, 1, 2, 1, 2, 0, 0>>,
      <<2, 0, -1, 2, 2, 0, 2, -1>>, <<-2, 0, 1, -2, 0, 2, 2, -2>>, <<1, 0, 0, -1, 1, 0, -2, 2>>, <<-1, 2, 2, -1, -1, -1, 2, 0>>,
      <<0, -2, 2, 1, 0, 1, -2, -1>>, <<2, -1, 1, 2, 1, 2, 0, 1>>, <<-1, 1, 2, 0, 1, 1, 1, -1>>, <<-2, -1, -1, 0, -2, -1, 0, -2>>,
      <<2, -2, 1, 2, 0, 2, 1, -1>>, <<-2, 0, 2, 2, -2, -1, 2, 0>>, <<2, -1, -1, -1, -2, -1, 1, 1>>, <<-1, -2, 1, -2, -1, 0, -2, 2>>,
      <<0, 0, 2, -1, 0, -1, 1, 1>>, <<1, -1, 2, -1, 0, 0, 0, -2>>, <<2, -1, -2, -1, 1, 0, 0, -1>>, <<1, 1, 0, 0, 1, -2, 1, -2>>,
      <<1, -2, 2, 1, 2, -2, -1, 0>>, <<1, 0, 0, 2, -1, 1, 1, 2>>, <<-2, 0, 1, -1, 1, 0, 0, 2>>, <<-2, -2, 1, 1, 1, 0, 2, 1>>,
      <<1, 2, -2, 2, 2, -1, 1, 1>>, <<-2, -2, -1, -2, 2, 0, 0, 2>>, <<-2, 0, 1, 1, -1, 0, -2, -1>>, <<0, 2, 2, -2, 0, -1, -1, 0>>,
      <<-2, 2, -1, 0, 2, 2, 0, 0>>, <<0, -2, 2, 1, 2, -1, 1, 0>>, <<2, 2, -2, 0, -2, 0, -1, -1>>, <<1, 2, 1, 1, -2, 2, 1, 0>>,
      <<0, 1, 1, -1, 0, -2, 1, -1>>, <<0, 0, -1, -1, -1, -2, 0, 1>>, <<-1, -2, 0, 0, 1, -2, -1, 1>>, <<-1, 1, 0, 2, -1, -1, -1, 1>>,
      <<0, 1, 2, 1, 0, 0, 2, 1>>, <<2, 1, 0, 2, 2, 1, 1, -2>>, <<-1, 1, 2, 0, -1, -1, 0, -1>>, <<1, 1, -2, -1, 1, -2, -2, -1>>,
      <<0, -2, 1, -2, 2, 0, -1, 1>>, <<-1, 2, -2, 0, -1, -1, 1, 0>>, <<-2, 2, 0, -2, -2, 2, 0, 1>>, <<-1, -1, 2, -2, 0, 0, 2, 0>>,
      <<1, -1, 0, -1, -2, 2, -2, 0>>, <<-2, 2, 0, -1, 0, -2, -1, 1>>, <<-1, -2, 1, 2, 2, 0, 0, 1>>, <<-2, 2, -1, -1, 1, 1, 1, 1>>,
      <<1, 2, 2, 2, 2, 2, 0, -2>>, <<1, 2, 0, -2, -2, 0, -1, -1>>, <<2, -1, -2, 0, 0, 1, -2, 1>>, <<2, 2, 2, -1, 1, -2, -1, -2>>,
      <<0, 0, 1, -1, -2, 0, -2, -2>>, <<-1, 1, 0, -2, 2, -2, 2, -2>>, <<0, 2, -2, 0, 1, -2, 1, 0>>, <<1, 1, -1, 2, -1, -1, -1, -1>>,
      <<-1, 1, 1, -1, 1, 0, 1, 2>>>>


\* the value the next random.randint(-2, 2) returns
RandInt(r) == RandIntStream[r.seed + 1][r.pos + 1]

\* random.seed(int(health_score))
SeededStale(s) == [seed |-> s, pos |-> rng.pos % 5]

Seeded(s) == [seed |-> s, pos |-> 0]

\* the random module after one more randint call
Drawn(r) == [r EXCEPT !.pos = r.pos + 1]

\* the float predict returns, for a probability held per mille
ProbabilityFloat(k) == Double(k, 1000)

\* int(max(0, min(100, e))) for e in fixed point
MetricNoFloor(e) == Min(100 * Unit, e) \div Unit

Metric(e) == Max(0, Min(100 * Unit, e)) \div Unit

\* the four 'value' entries of _calculate_vocal_metrics
VocalMetricValues(fd) ==
    [pitchStability |-> Metric(100 * Unit - DictGet(fd, "pitch_std", 0) * 10),
     voiceClarity |-> Metric(DictGet(fd, "hnr", 0) * 5),
     breathControl |-> Metric(100 * Unit - DictGet(fd, "shimmer", 0) * 1000),
     consistency |-> Metric(100 * Unit - DictGet(fd, "jitter", 0) * 10)]

\* generate_prediction lines 68-71 on what predict returned
DerivedMetrics(call) ==
    LET p == ProbabilityFloat(call.probability)
        risk_level == calculate_risk_level(p)
    IN [prediction |-> call.prediction,
        probability |-> call.probability,
        risk_level |-> risk_level,
        confidence |-> calculate_confidence(p),
        health_score |-> calculate_health_score(p),
        status |-> map_to_status(risk_level)]

\* the four 'trend' entries when nothing else touches the random module
TrendsAlone(health_score) == [i \in 1..4 |-> RandIntStream[health_score + 1][i]]

\* feature_extractor.format_features_for_display(features): thirteen of the
\* features, grouped
format_features_for_display(fd) ==
    [pitch |-> [mean |-> DictGet(fd, "pitch_mean", 0), std |-> DictGet(fd, "pitch_std", 0),
                min |-> DictGet(fd, "pitch_min", 0), max |-> DictGet(fd, "pitch_max", 0)],
     voice_quality |-> [jitter |-> DictGet(fd, "jitter", 0),
                        shimmer |-> DictGet(fd, "shimmer", 0),
                        hnr |-> DictGet(fd, "hnr", 0)],
     spectral |-> [centroid_mean |-> DictGet(fd, "spectral_centroid_mean", 0),
                   centroid_std |-> DictGet(fd, "spectral_centroid_std", 0)],
     energy |-> [rms_mean |-> DictGet(fd, "rms_mean", 0),
                 rms_std |-> DictGet(fd, "rms_std", 0)],
     temporal |-> [zcr_mean |-> DictGet(fd, "zcr_mean", 0),
                   zcr_std |-> DictGet(fd, "zcr_std", 0)]]

\* what generate_prediction returns or raises, run on its own
GeneratePredictionAlone(fd, call) ==
    IF call.outcome # "ok" THEN [done |-> TRUE, raised |-> call.outcome]
    ELSE LET derived == DerivedMetrics(call)
         IN [done |-> TRUE, raised |-> None,
             derived |-> derived,
             features |-> format_features_for_display(fd),
             values |-> VocalMetricValues(fd),
             trends |-> TrendsAlone(derived.health_score)]

\* a predict call that returned, as kept for comparison
CallRecord ==
    [model |-> model, scaler |-> scaler, array |-> array,
     prediction |-> last.prediction, probability |-> last.probability]

\* the call that has just ended may be kept in prev
Remember ==
    prev' \in {prev} \cup (IF PredictReturned THEN {CallRecord} ELSE {})

\* prediction_service.generate_prediction(file_path) on a decodable file
GeneratePrediction(a) ==
    LET fd == extract_features(a)
        x == features_to_array(fd)
        call == PredictCall(x)
        res == GeneratePredictionAlone(fd, call)
    IN  /\ audio' = a
        /\ features' = fd
        /\ array' = x
        /\ last' = [call EXCEPT !.op = "predict_features"]
        /\ result' = res
        /\ rng' = IF call.outcome = "ok"
                  THEN [seed |-> res.derived.health_score, pos |-> 4]
                  ELSE rng
        /\ UNCHANGED <<model, scaler, is_loaded, model_path, scaler_path, started, loads,
                       ok_loads, prev, audioVars, scoreVars, threads, flowVars>>

\* a direct predict call on an array
PredictObservedRefitting(x) ==
    /\ last' = PredictCall(x)
    /\ array' = x
    /\ features' = <<>>
    /\ scaler' = IF is_loaded THEN [scaler EXCEPT !.gen = (scaler.gen % MaxLoads) + 1]
                 ELSE scaler
    /\ Remember
    /\ UNCHANGED <<model, is_loaded, model_path, scaler_path, started, loads,
                   ok_loads, audio, result, rng, audioVars, scoreVars, threads, flowVars>>

PredictObserved(x) ==
    /\ last' = PredictCall(x)
    /\ array' = x
    /\ features' = <<>>
    /\ Remember
    /\ UNCHANGED <<model, scaler, is_loaded, model_path, scaler_path, started, loads,
                   ok_loads, audio, result, rng, audioVars, scoreVars, threads, flowVars>>

\* the application serving requests: the startup load, a reload from the
\* default paths, and generate_prediction
NextService ==
    \/ \E mfile \in ModelFiles, sfile \in ScalerFiles : Startup(mfile, sfile)
    \/ \E mfile \in ModelFiles, sfile \in ScalerFiles :
          LoadModel(DefaultModelPath, DefaultScalerPath, mfile, sfile)
    \/ \E a \in SampleAudios : GeneratePrediction(a)

SpecService == Init /\ [][NextService]_vars

\* the gateway with its predict calls observed
NextPredict ==
    \/ \E mfile \in ModelFiles, sfile \in ScalerFiles : Startup(mfile, sfile)
    \/ \E mfile \in ModelFiles, sfile \in ScalerFiles :
          LoadModel(DefaultModelPath, DefaultScalerPath, mfile, sfile)
    \/ \E x \in RawArrays : PredictObserved(x)

SpecPredict == Init /\ [][NextPredict]_vars

\* C12: every result a successful generate_prediction returns is well
\* formed, whichever probability tier produced it: the probability lies in
\* [0, 1], the risk level is low, medium or high, the status is normal,
\* warning or alert, the confidence is an integer in [50, 100] and the health
\* score is an integer in [0, 100].
C12_ResultWellFormed ==
    (result.done /\ result.raised = None) =>
        /\ result.derived.probability >= 0 /\ result.derived.probability <= 1000
        /\ result.derived.risk_level \in {"low", "medium", "high"}
        /\ result.derived.status \in {"normal", "warning", "alert"}
        /\ result.derived.confidence \in 50..100
        /\ result.derived.health_score \in 0..100

C12_Witness ==
    /\ result.done /\ result.raised = None
    /\ last.op = "predict_features" /\ last.outcome = "ok"
    /\ ~HasPredictProba(model) /\ HasDecisionFunction(model)
    /\ result.derived.probability = last.probability
    /\ result.derived.probability = Sigmoid(DecisionFunction(model, ScalerTransform(scaler, array)))

\* C13: predict changes nothing: model, scaler and is_loaded are the same
\* after the call, and the same array on the same loaded pair gives the same
\* class and probability again.
C13_PredictIsPure ==
    /\ [][loads' = loads => (model' = model /\ scaler' = scaler /\ is_loaded' = is_loaded)]_vars
    /\ [](( /\ PredictReturned
            /\ prev.model = model /\ prev.scaler = scaler /\ prev.array = array) =>
               (last.prediction = prev.prediction /\ last.probability = prev.probability))

C13_Witness ==
    /\ PredictReturned
    /\ prev.model = model /\ prev.scaler = scaler /\ prev.array = array
    /\ last.prediction = prev.prediction /\ last.probability = prev.probability
    /\ loads >= 2

-----------------------------------------------------------------------------
(* Two requests served side by side in worker threads *)

\* a request that has not started: generate_prediction is about to be called
\* on the file holding audio a
NewRequest(a) ==
    [audio |-> a, pc |-> "analyse", features |-> <<>>, call |-> NoCall,
     derived |-> <<>>, trends |-> <<>>, result |-> NoResult]

\* the application after a successful startup load of a classifier of kind k,
\* with two requests arriving
InitTwoRequests ==
    /\ InitAudio /\ InitFeatures /\ InitService /\ InitScores /\ InitFlow
    /\ \E k \in ModelKinds :
          /\ model = [gen |-> 1, kind |-> k]
          /\ scaler = [gen |-> 1, n_features |-> N_FEATURES]
          /\ is_loaded = TRUE
          /\ model_path = DefaultModelPath /\ scaler_path = DefaultScalerPath
          /\ started = TRUE /\ loads = 1 /\ ok_loads = 1
          /\ last = [op |-> "startup", outcome |-> "ok", prediction |-> -1, probability |-> -1]
    /\ \E a \in SampleAudios, b \in SampleAudios :
          threads = <<NewRequest(a), NewRequest(b)>>

\* generate_prediction lines 61-71 in thread t: everything up to the call of
\* _calculate_vocal_metrics works on the thread's own data and reads the
\* shared model and scaler
Analyse(t) ==
    /\ threads[t].pc = "analyse"
    /\ LET fd == extract_features(threads[t].audio)
           call == PredictCall(features_to_array(fd))
       IN threads' = [threads EXCEPT ![t] =
              IF call.outcome # "ok"
              THEN [@ EXCEPT !.pc = "done", !.features = fd, !.call = call,
                             !.result = [done |-> TRUE, raised |-> call.outcome]]
              ELSE [@ EXCEPT !.pc = "seed", !.features = fd, !.call = call,
                             !.derived = DerivedMetrics(call)]]
    /\ UNCHANGED <<gatewayVars, audioVars, featureVars, serviceVars, scoreVars, flowVars>>

\* _calculate_vocal_metrics line 129 in thread t: random.seed(int(health_score))
\* on the random module all threads share
SeedRandom(t) ==
    /\ threads[t].pc = "seed"
    /\ rng' = Seeded(threads[t].derived.health_score)
    /\ threads' = [threads EXCEPT ![t].pc = "trend"]
    /\ UNCHANGED <<result, prev, gatewayVars, audioVars, featureVars, scoreVars, flowVars>>

\* _calculate_vocal_metrics lines 134, 138, 142, 146 in thread t: one
\* random.randint(-2, 2); the fourth completes the result
RandomTrend(t) ==
    /\ threads[t].pc = "trend"
    /\ rng' = Drawn(rng)
    /\ LET trends == Append(threads[t].trends, RandInt(rng))
       IN threads' = [threads EXCEPT ![t] =
              IF Len(trends) < 4 THEN [@ EXCEPT !.trends = trends]
              ELSE [@ EXCEPT !.trends = trends, !.pc = "done",
                             !.result = [done |-> TRUE, raised |-> None,
                                         derived |-> threads[t].derived,
                                         features |->
                                             format_features_for_display(threads[t].features),
                                         values |-> VocalMetricValues(threads[t].features),
                                         trends |-> trends]]]
    /\ UNCHANGED <<result, prev, gatewayVars, audioVars, featureVars, scoreVars, flowVars>>

NextThreads ==
    \/ \E t \in 1..Len(threads) : Analyse(t)
    \/ \E t \in 1..Len(threads) : SeedRandom(t)
    \/ \E t \in 1..Len(threads) : RandomTrend(t)

SpecThreads == InitTwoRequests /\ [][NextThreads]_vars

\* C20: two requests running at the same time in separate worker threads
\* share no mutable state but the read-only model and scaler, so every field
\* of a request's result, the four trend values included, is what the same
\* request produces when it runs alone.
C20_ConcurrentEqualsAlone ==
    \A t \in 1..Len(threads) :
        threads[t].pc = "done" =>
            threads[t].result = GeneratePredictionAlone(threads[t].features, threads[t].call)

-----------------------------------------------------------------------------
(* PredictionService._calculate_vocal_metrics called on its own *)

\* values a feature takes in the calls: negative, a small fraction, large
MetricFeatureValues == {-Unit, Unit \div 20, 13 * Unit}

MetricFeatureNames == <<"pitch_std", "jitter", "shimmer", "hnr">>

\* the feature mappings of the calls: each of the four names absent or bound
\* to one of the values
MetricFeatureDicts ==
    UNION {[ks -> MetricFeatureValues] : ks \in SUBSET SeqRange(MetricFeatureNames)}

\* the health scores of the calls
HealthScores == {0, 75, 100}

\* the four randint calls of lines 134-146, starting from the generator state r
DrawTrends(r) ==
    <<RandInt(r), RandInt(Drawn(r)), RandInt(Drawn(Drawn(r))),
      RandInt(Drawn(Drawn(Drawn(r))))>>

\* _calculate_vocal_metrics(features, health_score): the returned mapping,
\* kept with the arguments of the call
_calculate_vocal_metrics(fd, health_score) ==
    [done |-> TRUE, features |-> fd, health_score |-> health_score,
     values |-> VocalMetricValues(fd),
     trends |-> DrawTrends(Seeded(health_score))]

\* an earlier return is kept, with a note whether a call with another health
\* score has been made since
SeenAfter(health_score) ==
    {IF seen.done
     THEN [seen EXCEPT !.others = @ \/ health_score # seen.health_score]
     ELSE seen}
    \cup (IF metrics.done
          THEN {[done |-> TRUE, health_score |-> metrics.health_score,
                 trends |-> metrics.trends,
                 others |-> health_score # metrics.health_score]}
          ELSE {})

CalculateVocalMetrics(fd, health_score) ==
    /\ metrics' = _calculate_vocal_metrics(fd, health_score)
    /\ rng' = Drawn(Drawn(Drawn(Drawn(Seeded(health_score)))))
    /\ seen' \in SeenAfter(health_score)
    /\ UNCHANGED <<result, prev, document, submit, race, gatewayVars, audioVars,
                   featureVars, scoreVars, threads>>

NextMetrics ==
    \E fd \in MetricFeatureDicts, health_score \in HealthScores :
        CalculateVocalMetrics(fd, health_score)

SpecMetrics == Init /\ [][NextMetrics]_vars

\* C21: in sequential use the four trends _calculate_vocal_metrics returns
\* are integers in [-2, 2] and depend on health_score only: two calls with the
\* same health_score return the same trends, whatever calls were made in
\* between.
C21_TrendsDependOnHealthScore ==
    metrics.done =>
        /\ Len(metrics.trends) = 4
        /\ \A i \in 1..4 : metrics.trends[i] \in -2..2
        /\ (seen.done /\ seen.health_score = metrics.health_score) =>
               seen.trends = metrics.trends

C21_Witness ==
    /\ metrics.done /\ seen.done /\ seen.others
    /\ seen.health_score = metrics.health_score
    /\ seen.trends = metrics.trends

\* max(0, min(100, e)) for e in fixed point
Clamp(e) == IF e < 0 THEN 0 ELSE IF e > 100 * Unit THEN 100 * Unit ELSE e

\* v is the integer part of the clamped e
IsClamped(v, e) == v \in 0..100 /\ v * Unit <= Clamp(e) /\ Clamp(e) < (v + 1) * Unit

FeatureOrZero(fd, k) == IF k \in DOMAIN fd THEN fd[k] ELSE 0

\* C22: each of the four vocal-metric values is an integer in [0, 100]:
\* 100 - pitch_std * 10, hnr * 5, 100 - shimmer * 1000 and
\* 100 - jitter * 10, each clamped on its own, for negative and non-negative
\* feature values; a missing feature counts as 0.
C22_MetricValuesClamped ==
    metrics.done =>
        LET fd == metrics.features
        IN  /\ IsClamped(metrics.values.pitchStability,
                         100 * Unit - FeatureOrZero(fd, "pitch_std") * 10)
            /\ IsClamped(metrics.values.voiceClarity, FeatureOrZero(fd, "hnr") * 5)
            /\ IsClamped(metrics.values.breathControl,
                         100 * Unit - FeatureOrZero(fd, "shimmer") * 1000)
            /\ IsClamped(metrics.values.consistency,
                         100 * Unit - FeatureOrZero(fd, "jitter") * 10)

C22_Witness ==
    /\ metrics.done
    /\ DOMAIN metrics.features = {"pitch_std", "shimmer", "hnr"}
    /\ metrics.features["pitch_std"] > 0 /\ metrics.features["pitch_std"] < Unit
    /\ metrics.features["hnr"] < 0 /\ metrics.features["shimmer"] < 0
    /\ metrics.values.pitchStability = 99 /\ metrics.values.voiceClarity = 0
    /\ metrics.values.breathControl = 100 /\ metrics.values.consistency = 100

-----------------------------------------------------------------------------
(* From the classifier's answer to the result document *)

\* _calculate_pattern_data(prediction_result)
_calculate_pattern_dataStrict(health_score) ==
    IF health_score > 80 THEN <<80, 15, 5>>
    ELSE IF health_score > 60 THEN <<60, 30, 10>>
    ELSE <<40, 35, 25>>

_calculate_pattern_data(health_score) ==
    IF health_score >= 80 THEN <<80, 15, 5>>
    ELSE IF health_score >= 60 THEN <<60, 30, 10>>
    ELSE <<40, 35, 25>>

\* labels.get(status, 'Analysis Complete')
StatusLabel(status) ==
    CASE status = "normal" -> "Healthy Voice Patterns"
      [] status = "warning" -> "Attention Recommended"
      [] status = "alert" -> "Consultation Advised"
      [] OTHER -> "Analysis Complete"

\* create_result_document(prediction_result, user_id, recording_id, ...)
create_result_documentSwapped(res, recording_id) ==
    [done |-> TRUE,
     recording_id |-> recording_id,
     healthScore |-> res.derived.confidence,
     overallResult |-> [status |-> res.derived.status,
                        label |-> StatusLabel(res.derived.status)],
     confidence |-> res.derived.health_score,
     severity |-> res.derived.risk_level,
     metrics |-> [values |-> res.values, trends |-> res.trends],
     pattern |-> _calculate_pattern_data(res.derived.health_score),
     raw_features |-> res.features,
     ml_prediction |-> [prediction_class |-> res.derived.prediction,
                        probability |-> res.derived.probability]]

create_result_document(res, recording_id) ==
    [done |-> TRUE,
     recording_id |-> recording_id,
     healthScore |-> res.derived.health_score,
     overallResult |-> [status |-> res.derived.status,
                        label |-> StatusLabel(res.derived.status)],
     confidence |-> res.derived.confidence,
     severity |-> res.derived.risk_level,
     metrics |-> [values |-> res.values, trends |-> res.trends],
     pattern |-> _calculate_pattern_data(res.derived.health_score),
     raw_features |-> res.features,
     ml_prediction |-> [prediction_class |-> res.derived.prediction,
                        probability |-> res.derived.probability]]

\* what a stub classifier fixed to the probability k / 1000 makes predict return
StubCall(k) ==
    [op |-> "predict_features", outcome |-> "ok",
     prediction |-> IF k > 500 THEN 1 ELSE 0, probability |-> k]

\* generate_prediction on a decodable file, predict answering with call
GeneratePredictionStubbed(a, call) ==
    LET fd == extract_features(a)
        res == GeneratePredictionAlone(fd, call)
    IN  /\ ~result.done
        /\ audio' = a
        /\ features' = fd
        /\ array' = features_to_array(fd)
        /\ last' = call
        /\ result' = res
        /\ rng' = [seed |-> res.derived.health_score, pos |-> 4]
        /\ UNCHANGED <<model, scaler, is_loaded, model_path, scaler_path, started, loads,
                       ok_loads, prev, audioVars, scoreVars, threads, flowVars>>

\* submit_recording lines 73-80
CreateResultDocument(recording_id) ==
    /\ result.done /\ result.raised = None /\ ~document.done
    /\ document' = create_result_document(result, recording_id)
    /\ UNCHANGED <<metrics, seen, submit, race, gatewayVars, audioVars, featureVars,
                   serviceVars, scoreVars, threads>>

NextDocument ==
    \/ \E a \in SampleAudios : \E k \in 0..1000 : GeneratePredictionStubbed(a, StubCall(k))
    \/ \E recording_id \in {1} : CreateResultDocument(recording_id)

SpecDocument == Init /\ [][NextDocument]_vars

\* the scalars a grouped feature mapping carries
ScalarCount(grouped) ==
    LET n(c) == IF c \in DOMAIN grouped THEN Cardinality(DOMAIN grouped[c]) ELSE 0
    IN n("mfcc") + n("pitch") + n("voice_quality") + n("spectral") + n("energy")
       + n("temporal")

\* C23: the result of generate_prediction, and the raw_features field of the
\* assembled document, carry all 39 named feature scalars.
C23_AllFeaturesCarried ==
    /\ (result.done /\ result.raised = None) => ScalarCount(result.features) = 39
    /\ document.done => ScalarCount(document.raw_features) = 39

\* C24: when the classifier reports probability 0.9 for a valid recording the
\* result has status alert, risk level high, health score at most 15 and
\* confidence at least 80, and the document carries the same status, health
\* score and confidence.
C24_AlertAtPointNine ==
    (result.done /\ result.raised = None /\ result.derived.probability = 900) =>
        /\ result.derived.status = "alert"
        /\ result.derived.risk_level = "high"
        /\ result.derived.health_score <= 15
        /\ result.derived.confidence >= 80
        /\ document.done =>
              /\ document.overallResult.status = result.derived.status
              /\ document.healthScore = result.derived.health_score
              /\ document.confidence = result.derived.confidence

C24_Witness ==
    /\ result.done /\ result.raised = None /\ result.derived.probability = 900
    /\ document.done
    /\ document.overallResult.status = "alert"
    /\ document.healthScore = 9 /\ document.confidence = 80

\* C25: the pattern distribution of a document depends on health_score only:
\* [80, 15, 5] for health_score >= 80, [60, 30, 10] for
\* 60 <= health_score < 80 and [40, 35, 25] otherwise; the entries sum to 100.
C25_PatternFromHealthScore ==
    document.done =>
        LET hs == document.healthScore
            pattern == document.pattern
        IN  /\ hs >= 80 => pattern = <<80, 15, 5>>
            /\ (hs >= 60 /\ hs < 80) => pattern = <<60, 30, 10>>
            /\ hs < 60 => pattern = <<40, 35, 25>>
            /\ pattern[1] + pattern[2] + pattern[3] = 100

C25_Witness ==
    /\ document.done
    /\ document.healthScore = 80 /\ document.pattern = <<80, 15, 5>>

\* C30: status and health score of a result agree: normal implies
\* health_score >= 70, warning implies 30 <= health_score <= 70, alert implies
\* health_score <= 30; so the pattern [80, 15, 5] occurs with status normal
\* only.
C30_StatusAgreesWithHealthScore ==
    /\ (result.done /\ result.raised = None) =>
          LET hs == result.derived.health_score
              status == result.derived.status
          IN  /\ status = "normal" => hs >= 70
              /\ status = "warning" => (hs >= 30 /\ hs <= 70)
              /\ status = "alert" => hs <= 30
    /\ (document.done /\ document.pattern = <<80, 15, 5>>) =>
          document.overallResult.status = "normal"

C30_Witness ==
    /\ document.done
    /\ document.overallResult.status = "warning" /\ document.healthScore = 70
    /\ result.derived.probability = 300

-----------------------------------------------------------------------------
(* Reloading the classifier *)

\* C27: after any sequence of load_model calls, whenever is_loaded is True the
\* installed model and scaler come from the same successful load; a failed
\* reload never leaves a new model beside an older scaler.
C27_LoadedPairFromOneLoad ==
    is_loaded => (model.gen = scaler.gen /\ model.gen > 0)

(* predict on one thread while the first load_model runs on another *)

\* the statements of load_model that touch the gateway, in program order
LoadStepsLoadedFirst == <<"paths", "exists", "model", "loaded", "scaler">>

LoadSteps == <<"paths", "exists", "model", "scaler", "loaded">>

FeatureArrays == {features_to_array(fd) : fd \in FeatureDicts}

\* a fresh gateway, a load_model call about to start on the files given and a
\* predict call about to start on the array given
InitLoadRace ==
    /\ InitGateway /\ InitAudio /\ InitFeatures /\ InitService /\ InitScores /\ InitThreads
    /\ metrics = NoMetrics /\ seen = NoMetrics /\ document = NoDocument /\ submit = NoSubmit
    /\ race \in [mfile : ModelFiles, sfile : ScalerFiles, x : FeatureArrays,
                 at : {0}, load_raised : {None},
                 pc : {"check"}, raised : {None},
                 saw_scaler : {NoScaler}, saw_model : {NoModel}]

\* one statement of load_model
LoadStep ==
    LET step == LoadSteps[race.at + 1]
        outcome == LoadOutcome(race.mfile, race.sfile)
        raises ==
            \/ step = "exists" /\ outcome \in {"model_not_found", "scaler_not_found"}
            \/ step = "model" /\ outcome = "model_corrupt"
            \/ step = "scaler" /\ outcome = "scaler_corrupt"
    IN  /\ race.at < Len(LoadSteps) /\ race.load_raised = None
        /\ race' = [race EXCEPT !.at = @ + 1,
                                !.load_raised = IF raises THEN outcome ELSE None]
        /\ model_path' = IF step = "paths" THEN DefaultModelPath ELSE model_path
        /\ scaler_path' = IF step = "paths" THEN DefaultScalerPath ELSE scaler_path
        /\ loads' = IF step = "paths" THEN loads + 1 ELSE loads
        /\ model' = IF step = "model" /\ ~raises
                    THEN [gen |-> loads, kind |-> race.mfile] ELSE model
        /\ scaler' = IF step = "scaler" /\ ~raises
                     THEN [gen |-> loads, n_features |-> N_FEATURES] ELSE scaler
        /\ is_loaded' = IF step = "loaded" THEN TRUE ELSE is_loaded
        /\ ok_loads' = IF step = "loaded" THEN ok_loads + 1 ELSE ok_loads
        /\ UNCHANGED <<started, last, audio, features, array, audioVars, serviceVars,
                       scoreVars, threads, metrics, seen, document, submit>>

PredictorVars ==
    <<model, scaler, is_loaded, model_path, scaler_path, started, loads, ok_loads,
      audio, features, audioVars, serviceVars, scoreVars, threads, metrics, seen,
      document, submit>>

\* predict lines 105-106
PredictCheck ==
    /\ race.pc = "check"
    /\ IF is_loaded
       THEN /\ race' = [race EXCEPT !.pc = "transform"]
            /\ UNCHANGED <<last, array>>
       ELSE /\ race' = [race EXCEPT !.pc = "raised", !.raised = "not_loaded"]
            /\ last' = [op |-> "predict", outcome |-> "not_loaded",
                        prediction |-> -1, probability |-> -1]
            /\ array' = race.x
    /\ UNCHANGED PredictorVars

\* predict line 113
PredictTransform ==
    /\ race.pc = "transform"
    /\ IF TransformRaises(scaler, race.x)
       THEN /\ race' = [race EXCEPT !.pc = "raised", !.raised = "predict_error",
                                    !.saw_scaler = scaler]
            /\ last' = [op |-> "predict", outcome |-> "predict_error",
                        prediction |-> -1, probability |-> -1]
            /\ array' = race.x
       ELSE /\ race' = [race EXCEPT !.pc = "classify", !.saw_scaler = scaler]
            /\ array' = ScalerTransform(scaler, race.x)
            /\ UNCHANGED last
    /\ UNCHANGED PredictorVars

\* predict lines 116-134
PredictClassify ==
    /\ race.pc = "classify"
    /\ IF model = NoModel
       THEN /\ race' = [race EXCEPT !.pc = "raised", !.raised = "predict_error",
                                    !.saw_model = model]
            /\ last' = [op |-> "predict", outcome |-> "predict_error",
                        prediction |-> -1, probability |-> -1]
       ELSE /\ race' = [race EXCEPT !.pc = "returned", !.saw_model = model]
            /\ last' = [op |-> "predict", outcome |-> "ok",
                        prediction |-> ClassifierPredict(model, array),
                        probability |-> Probability(model, array)]
    /\ array' = race.x
    /\ UNCHANGED PredictorVars

NextLoadRace ==
    \/ LoadStep
    \/ PredictCheck
    \/ PredictTransform
    \/ PredictClassify

SpecLoadRace == InitLoadRace /\ [][NextLoadRace]_vars

\* C28: a predict call that interleaves with the first load_model on an
\* unloaded gateway either fails with 'Model not loaded' or runs with the
\* model and the scaler of that load installed; it never finds the gateway
\* loaded with a model and no scaler.
C28_PredictSeesWholeLoad ==
    /\ race.pc = "raised" => race.raised = "not_loaded"
    /\ race.pc \in {"transform", "classify", "returned"} =>
          /\ is_loaded
          /\ model = [gen |-> 1, kind |-> race.mfile]
          /\ scaler = [gen |-> 1, n_features |-> N_FEATURES]
    /\ race.pc \in {"classify", "returned"} => race.saw_scaler = scaler
    /\ race.pc = "returned" => (race.saw_model = model /\ last.outcome = "ok")

C28_Witness ==
    /\ race.pc = "returned" /\ race.at = Len(LoadSteps)
    /\ race.saw_model.gen = 1 /\ race.saw_scaler.gen = 1
    /\ last.outcome = "ok"

-----------------------------------------------------------------------------
(* The submit flow: submit_recording from the saved upload to the response *)

\* the stages of the data flow
Stages == <<"validate", "extract", "predict", "derive", "assemble", "store">>

\* the statements of the try block of submit_recording, with those of
\* generate_prediction in place of its call
SubmitStatementsPredictFirst ==
    <<"extract", "predict", "derive", "validate",
      "recording_doc", "insert_recording", "result_doc", "insert_result">>

SubmitStatements ==
    <<"validate", "extract", "predict", "derive",
      "recording_doc", "insert_recording", "result_doc", "insert_result">>

\* the stage a statement belongs to
StageOf(statement) ==
    CASE statement \in {"recording_doc", "result_doc"} -> "assemble"
      [] statement \in {"insert_recording", "insert_result"} -> "store"
      [] OTHER -> statement

\* the uploads that have been saved to the upload directory
UploadedFiles == {f \in Files : f.exists}

\* the recording_id of the request
RecordingId == 1

NoRecording == [id |-> 0, status |-> None, validation |-> NoReport]

\* one request, its upload saved (lines 40-45); the gateway as startup left it
InitSubmit ==
    /\ InitService /\ InitScores /\ InitThreads /\ InitFeatures
    /\ metrics = NoMetrics /\ seen = NoMetrics /\ document = NoDocument /\ race = NoRace
    /\ \/ InitGateway
       \/ /\ \E k \in ModelKinds : model = [gen |-> 1, kind |-> k]
          /\ scaler = [gen |-> 1, n_features |-> N_FEATURES]
          /\ is_loaded = TRUE
          /\ model_path = DefaultModelPath /\ scaler_path = DefaultScalerPath
          /\ started = TRUE /\ loads = 1 /\ ok_loads = 1
          /\ last = NoCall
    /\ file \in UploadedFiles
    /\ checks = <<>> /\ validation = NoReport /\ prep = NoPrep
    /\ submit \in [pc : {1}, content : SampleAudios, log : {<<>>}, raised : {None},
                   recording_doc : {NoRecording}, recordings : {{}}, results : {{}},
                   response : {0}]

Statement ==
    IF submit.pc \in 1..Len(SubmitStatements) /\ submit.raised = None /\ submit.response = 0
    THEN SubmitStatements[submit.pc] ELSE None

\* the statement has run: on to the next one, or to the except clauses
After(raised) ==
    [submit EXCEPT !.pc = @ + 1, !.log = Append(@, StageOf(Statement)), !.raised = raised]

SubmitGateway ==
    <<model, scaler, is_loaded, model_path, scaler_path, started, loads, ok_loads>>

\* line 49
SubmitValidate ==
    /\ Statement = "validate"
    /\ validation' = validate_audio(file).result
    /\ checks' = validate_audio(file).checks
    /\ submit' = After(validate_audio(file).result.raised)
    /\ UNCHANGED <<file, prep, SubmitGateway, last, featureVars, serviceVars, scoreVars,
                   threads, metrics, seen, document, race>>

\* generate_prediction lines 62-63: the file is decoded again
SubmitExtract(decodes) ==
    /\ Statement = "extract"
    /\ prep' = preprocess_audio(decodes /\ file.decodable)
    /\ IF decodes /\ file.decodable
       THEN /\ audio' = submit.content
            /\ features' = extract_features(submit.content)
            /\ array' = features_to_array(extract_features(submit.content))
            /\ submit' = After(None)
       ELSE /\ UNCHANGED featureVars
            /\ submit' = After("DecodeError")
    /\ UNCHANGED <<file, checks, validation, SubmitGateway, last, serviceVars, scoreVars,
                   threads, metrics, seen, document, race>>

\* generate_prediction line 65
SubmitPredict ==
    /\ Statement = "predict"
    /\ last' = [PredictCall(array) EXCEPT !.op = "predict_features"]
    /\ submit' = After(IF PredictCall(array).outcome = "ok"
                       THEN None ELSE "PredictionModelError")
    /\ UNCHANGED <<SubmitGateway, audioVars, featureVars, serviceVars, scoreVars,
                   threads, metrics, seen, document, race>>

\* generate_prediction lines 67-91
SubmitDerive ==
    /\ Statement = "derive"
    /\ result' = GeneratePredictionAlone(features, last)
    /\ rng' = [seed |-> DerivedMetrics(last).health_score, pos |-> 4]
    /\ submit' = After(None)
    /\ UNCHANGED <<SubmitGateway, last, prev, audioVars, featureVars, scoreVars,
                   threads, metrics, seen, document, race>>

\* lines 54-68
SubmitRecordingDoc ==
    /\ Statement = "recording_doc"
    /\ submit' = [After(None) EXCEPT !.recording_doc =
                      [id |-> RecordingId, status |-> "processed",
                       validation |-> validation]]
    /\ UNCHANGED <<gatewayVars, audioVars, featureVars, serviceVars, scoreVars,
                   threads, metrics, seen, document, race>>

\* line 70: the insert succeeds or the database raises
SubmitInsertRecording(stored) ==
    /\ Statement = "insert_recording"
    /\ submit' = IF stored
                 THEN [After(None) EXCEPT !.recordings = @ \cup {submit.recording_doc}]
                 ELSE After("Exception")
    /\ UNCHANGED <<gatewayVars, audioVars, featureVars, serviceVars, scoreVars,
                   threads, metrics, seen, document, race>>

\* lines 72-80
SubmitResultDoc ==
    /\ Statement = "result_doc"
    /\ document' = create_result_document(result, RecordingId)
    /\ submit' = After(None)
    /\ UNCHANGED <<gatewayVars, audioVars, featureVars, serviceVars, scoreVars,
                   threads, metrics, seen, race>>

\* line 82: the insert succeeds or the database raises
SubmitInsertResult(stored) ==
    /\ Statement = "insert_result"
    /\ submit' = IF stored
                 THEN [After(None) EXCEPT !.results = @ \cup {document}]
                 ELSE After("Exception")
    /\ UNCHANGED <<gatewayVars, audioVars, featureVars, serviceVars, scoreVars,
                   threads, metrics, seen, document, race>>

\* lines 84-93
SubmitReturn ==
    /\ submit.pc = Len(SubmitStatements) + 1
    /\ submit.raised = None /\ submit.response = 0
    /\ submit' = [submit EXCEPT !.response = 200]
    /\ UNCHANGED <<gatewayVars, audioVars, featureVars, serviceVars, scoreVars,
                   threads, metrics, seen, document, race>>

\* lines 95-111: each except clause removes the file and answers with an error
SubmitExcept ==
    /\ submit.pc > 0 /\ submit.raised # None /\ submit.response = 0
    /\ file' = [file EXCEPT !.exists = FALSE]
    /\ submit' = [submit EXCEPT !.response =
                      IF submit.raised = "AudioValidationError" THEN 400 ELSE 500]
    /\ UNCHANGED <<checks, validation, prep, gatewayVars, featureVars, serviceVars,
                   scoreVars, threads, metrics, seen, document, race>>

NextSubmit ==
    \/ SubmitValidate
    \/ \E decodes \in BOOLEAN : SubmitExtract(decodes)
    \/ SubmitPredict
    \/ SubmitDerive
    \/ SubmitRecordingDoc
    \/ \E stored \in BOOLEAN : SubmitInsertRecording(stored)
    \/ SubmitResultDoc
    \/ \E stored \in BOOLEAN : SubmitInsertResult(stored)
    \/ SubmitReturn
    \/ SubmitExcept

SpecSubmit == InitSubmit /\ [][NextSubmit]_vars

\* where a stage first appears in a log, 0 if it does not
FirstIndex(log, stage) ==
    IF \E i \in 1..Len(log) : log[i] = stage
    THEN CHOOSE i \in 1..Len(log) :
             log[i] = stage /\ \A j \in 1..(i - 1) : log[j] # stage
    ELSE 0

C29_NoOrphanRecording ==
    (submit.pc > 0 /\ submit.response # 0) =>
        \A r \in submit.recordings :
            /\ \E d \in submit.results : d.recording_id = r.id
            /\ file.exists

====
